---- MODULE Spec2Model ----
(***************************************************************************)
(* Model of npdoc_to_md: the Examples-section line labeller, the example   *)
(* block assembler, the Examples renderer and the section locator.         *)
(*                                                                         *)
(* A text line is a sequence of one-character strings, so that strip,      *)
(* startswith, endswith and the regular expressions act on characters.     *)
(* Python's None is the empty option <<>>, a present value x is <<x>>.     *)
(***************************************************************************)
EXTENDS Integers, Sequences, FiniteSets, TLC

VARIABLES
    lines,      \* ExamplesLabeller.lines / DocParser.lines: the Examples section
    called,     \* the set of properties / methods evaluated so far
    labels,     \* result of ExamplesLabeller.labels
    blocks,     \* result of ExamplesLabeller.example_blocks
    config,     \* the Config the parser was built with
    md,         \* result of ExampleParser.to_md_lines
    md_from,    \* history: the example line that emitted each line of md
    section_name,   \* result of SectionsFinder._find_from_lines
    sections,   \* result of SectionsFinder.all_sections
    all_members,    \* dir(obj) of the object a MembersParser is made for
    members,        \* the member-selection expression
    parsed_members, \* MembersParser.parsed_members, as an option
    raised,     \* the exception that the last call raised, "none" without one
    conflicting,    \* the members that a MembersConflictsException names
    kwargs,     \* the keyword arguments that a Config is made with
    text,       \* the lines of the string given to render_string
    ignore_errors,  \* the parameter ignore_errors of render_string
    rendered_text,  \* the lines of the string that render_string returns, as an option
    placeholder,    \* what Placeholder.search returns, as an option
    callable_obj,   \* the callable given to SignatureParser.get_signature
    signature,  \* what get_signature returns, as an option
    loggers,    \* logger.loggers: the names of the loggers initialised so far
    handlers,   \* the number of handlers of logging.getLogger('npdoc_to_md')
    threads,    \* the render calls that run concurrently, each with its position
    param,      \* the numpydoc Parameter given to _param_to_md_lines
    namespace,  \* the namespace of the object given to parse_and_render
    passes      \* history: the ParserEngine passes of parse_and_render

vars == <<lines, called, labels, blocks, config, md, md_from, section_name,
          sections, all_members, members, parsed_members, raised, conflicting,
          kwargs, text, ignore_errors, rendered_text, placeholder,
          callable_obj, signature, loggers, handlers, threads, param, namespace, passes>>

\* the variables of a MembersParser
members_vars == <<all_members, members, parsed_members, raised, conflicting>>

\* the variables of get_signature, of the logger, of _param_to_md_lines and
\* of parse_and_render
late_vars == <<callable_obj, signature, loggers, handlers, threads, param, namespace,
               passes>>

\* the variables of the placeholders and of render_string
core_vars == <<kwargs, text, ignore_errors, rendered_text, placeholder>>

(***************************************************************************)
(* Bounds of the model                                                     *)
(***************************************************************************)
MaxLines == 4

MaxRenderLines == 3

MaxHeaderLen == 3

MaxChunks == 4

MaxMembers == 3

MaxBody == 3

MaxTextLines == 2

\* the longest name and type of a parameter record
MaxParamLen == 2

(***************************************************************************)
(* Python str helpers                                                      *)
(***************************************************************************)
None == <<>>

Some(x) == <<x>>

\* the no-break space U+00A0 (the string token stands for the one character):
\* whitespace for str.strip, kept by inspect.cleandoc and str.splitlines
Nbsp == "NBSP"

Whitespace == {" ", "\t", Nbsp}

RECURSIVE lstrip_ws(_)
lstrip_ws(s) ==
    IF s # <<>> /\ Head(s) \in Whitespace THEN lstrip_ws(Tail(s)) ELSE s

RECURSIVE rstrip_ws(_)
rstrip_ws(s) ==
    IF s # <<>> /\ s[Len(s)] \in Whitespace
    THEN rstrip_ws(SubSeq(s, 1, Len(s) - 1))
    ELSE s

strip(s) == rstrip_ws(lstrip_ws(s))

RECURSIVE lstrip_chars(_, _)
lstrip_chars(s, chars) ==
    IF s # <<>> /\ Head(s) \in chars THEN lstrip_chars(Tail(s), chars) ELSE s

RECURSIVE rstrip_chars(_, _)
rstrip_chars(s, chars) ==
    IF s # <<>> /\ s[Len(s)] \in chars
    THEN rstrip_chars(SubSeq(s, 1, Len(s) - 1), chars)
    ELSE s

startswith(s, prefix) ==
    Len(s) >= Len(prefix) /\ SubSeq(s, 1, Len(prefix)) = prefix

endswith(s, suffix) ==
    Len(s) >= Len(suffix) /\ SubSeq(s, Len(s) - Len(suffix) + 1, Len(s)) = suffix

(***************************************************************************)
(* helpers.Patterns and helpers.previous_current_next                      *)
(***************************************************************************)
PromptPrimary == <<">", ">", ">">>

PromptContinuation == <<".", ".", ".">>

BlanklineMarker == <<"<", "B", "L", "A", "N", "K", "L", "I", "N", "E", ">">>

DoctestSkipMarker ==
    <<"#", "d", "o", "c", "t", "e", "s", "t", ":", " ", "+", "S", "K", "I", "P">>

\* Patterns.console_py.search(line): the line starts with a prompt marker
console_py_search(line) ==
    startswith(line, PromptPrimary) \/ startswith(line, PromptContinuation)

\* Patterns.console_py.sub('', line): drops the prompt marker and the one
\* space that may follow it
console_py_sub(line) ==
    IF ~console_py_search(line) THEN line
    ELSE LET rest == SubSeq(line, 4, Len(line))
         IN IF rest # <<>> /\ Head(rest) = " " THEN Tail(rest) ELSE rest

\* Patterns.blankline.sub('', line): a line made of the marker, with
\* whitespace allowed around it, becomes the empty line
blankline_sub(line) ==
    IF strip(line) = BlanklineMarker THEN <<>> ELSE line

\* Patterns.doctest_skip.sub('', line): drops a trailing doctest skip
\* marker together with the whitespace before it
doctest_skip_sub(line) ==
    IF endswith(rstrip_ws(line), DoctestSkipMarker)
    THEN rstrip_ws(SubSeq(line, 1, Len(rstrip_ws(line)) - Len(DoctestSkipMarker)))
    ELSE line

\* previous_current_next(items): for each item the triple
\* (previous or None, item, next or None)
previous_current_next(items) ==
    [i \in 1..Len(items) |->
        [previous |-> IF i > 1 THEN Some(items[i - 1]) ELSE None,
         current  |-> items[i],
         next     |-> IF i < Len(items) THEN Some(items[i + 1]) ELSE None]]

(***************************************************************************)
(* examples_labeller.py                                                    *)
(***************************************************************************)
ExampleLineType == {"INPUT", "OUTPUT", "TEXT", "OUTPUT_LANG"}

ExampleLine(ix, line, line_type) ==
    [global_index |-> ix, line |-> line, line_type |-> line_type]

\* a faulty LabelLine: a blank line after an OUTPUT line stays OUTPUT
LabelLine_BlankContinuesOutput(pcn, ix, labelled_lines) ==
    LET previous_line == pcn.previous
        line == pcn.current
        is_input == console_py_search(line)
        previous_label == IF ix > 0 THEN Some(labelled_lines[ix].line_type) ELSE None
        follows_input == previous_line # None /\ previous_label = Some("INPUT")
        follows_output == previous_label = Some("OUTPUT")
        is_empty_line == strip(line) = <<>>
        is_example_output ==
            \/ (follows_input /\ ~is_input /\ ~is_empty_line)
            \/ follows_output
        stripped == strip(line)
        is_lang == startswith(stripped, <<"{", "{">>) /\ endswith(stripped, <<"}", "}">>)
    IN  IF is_input THEN ExampleLine(ix, line, "INPUT")
        ELSE IF is_example_output THEN ExampleLine(ix, line, "OUTPUT")
        ELSE ExampleLine(ix, line, IF is_lang THEN "OUTPUT_LANG" ELSE "TEXT")

\* the body of the for loop of ExamplesLabeller.labels for index ix (0-based),
\* given the lines labelled before it
LabelLine(pcn, ix, labelled_lines) ==
    LET previous_line == pcn.previous
        line == pcn.current
        is_input == console_py_search(line)
        previous_label == IF ix > 0 THEN Some(labelled_lines[ix].line_type) ELSE None
        follows_input == previous_line # None /\ previous_label = Some("INPUT")
        follows_output == previous_label = Some("OUTPUT")
        is_empty_line == strip(line) = <<>>
        previous_line_empty == previous_line # None /\ strip(previous_line[1]) = <<>>
        is_example_output ==
            \/ (follows_input /\ ~is_input /\ ~is_empty_line)
            \/ (follows_output /\ ~is_empty_line /\ ~previous_line_empty)
        stripped == strip(line)
        is_lang == startswith(stripped, <<"{", "{">>) /\ endswith(stripped, <<"}", "}">>)
    IN  IF is_input THEN ExampleLine(ix, line, "INPUT")
        ELSE IF is_example_output THEN ExampleLine(ix, line, "OUTPUT")
        ELSE ExampleLine(ix, line, IF is_lang THEN "OUTPUT_LANG" ELSE "TEXT")

RECURSIVE LabelsLoop(_, _)
LabelsLoop(pcns, n) ==
    IF n = 0 THEN <<>>
    ELSE LET labelled_lines == LabelsLoop(pcns, n - 1)
         IN Append(labelled_lines, LabelLine(pcns[n], n - 1, labelled_lines))

\* ExamplesLabeller.labels
Labels(ls) ==
    IF Len(ls) = 0 THEN <<>>
    ELSE LabelsLoop(previous_current_next(ls), Len(ls))

\* a faulty IsBlockStart: an INPUT line right after an OUTPUT line starts no
\* block
IsBlockStart_InputAfterOutputStays(lbls, ix) ==
    IF ix = 0 THEN TRUE
    ELSE LET previous == lbls[ix]
             example_line == lbls[ix + 1]
         IN IF previous.line_type = "INPUT" /\ strip(example_line.line) = <<>>
            THEN TRUE
            ELSE IF previous.line_type # "OUTPUT" THEN FALSE
            ELSE example_line.line_type = "TEXT"

\* first loop of ExamplesLabeller.example_blocks: is 0-based index ix the
\* start of a block
IsBlockStart(lbls, ix) ==
    IF ix = 0 THEN TRUE
    ELSE LET previous == lbls[ix]
             example_line == lbls[ix + 1]
         IN IF previous.line_type = "INPUT" /\ strip(example_line.line) = <<>>
            THEN TRUE
            ELSE IF previous.line_type # "OUTPUT" THEN FALSE
            ELSE example_line.line_type \in {"INPUT", "TEXT"}

RECURSIVE BlocksStartLoop(_, _)
BlocksStartLoop(lbls, n) ==
    IF n = 0 THEN <<>>
    ELSE LET before == BlocksStartLoop(lbls, n - 1)
         IN IF IsBlockStart(lbls, n - 1) THEN Append(before, n - 1) ELSE before

BlocksStart(lbls) == BlocksStartLoop(lbls, Len(lbls))

\* a faulty BlocksFromStarts: the slice of a block stops one line early
BlocksFromStarts_ShortSlice(lbls, blocks_start) ==
    LET pcns == previous_current_next(blocks_start)
    IN [k \in 1..Len(pcns) |->
            IF pcns[k].next # None
            THEN SubSeq(lbls, pcns[k].current + 1, pcns[k].next[1] - 1)
            ELSE SubSeq(lbls, pcns[k].current + 1, Len(lbls))]

\* second loop of ExamplesLabeller.example_blocks: labels[start_ix:next_ix],
\* or labels[start_ix:] for the last start
BlocksFromStarts(lbls, blocks_start) ==
    LET pcns == previous_current_next(blocks_start)
    IN [k \in 1..Len(pcns) |->
            IF pcns[k].next # None
            THEN SubSeq(lbls, pcns[k].current + 1, pcns[k].next[1])
            ELSE SubSeq(lbls, pcns[k].current + 1, Len(lbls))]

\* ExamplesLabeller.example_blocks
ExampleBlocks(ls) ==
    LET lbls == Labels(ls)
    IN BlocksFromStarts(lbls, BlocksStart(lbls))

(***************************************************************************)
(* sections.py: SectionsFinder._find_from_lines                            *)
(***************************************************************************)
UpperLetters ==
    {"A", "B", "C", "D", "E", "F", "G", "H", "I", "J", "K", "L", "M",
     "N", "O", "P", "Q", "R", "S", "T", "U", "V", "W", "X", "Y", "Z"}

\* str.isupper on one character
isupper(c) == c \in UpperLetters

\* the for loop of _find_from_lines from 1-based position ix on, over the
\* characters of the two right-stripped lines of equal length
RECURSIVE FindLoop(_, _, _, _, _)
FindLoop(line, next_line, ix, header_reached, section_name_chars) ==
    IF ix > Len(line) THEN None
    ELSE LET pc == line[ix]
             c == next_line[ix]
             reached == IF ~header_reached THEN pc # " " ELSE header_reached
             chars == IF reached THEN Append(section_name_chars, pc)
                      ELSE section_name_chars
         IN  IF ~reached /\ ~(pc = " " /\ c = " ") THEN None
             ELSE IF reached /\ c \notin {"-", "="} THEN None
             ELSE IF ix = Len(line) THEN Some(chars)
             ELSE FindLoop(line, next_line, ix + 1, reached, chars)

\* SectionsFinder._find_from_lines(line, next_line); next_line is an option
find_from_lines(line, next_line) ==
    IF next_line = None THEN None
    ELSE IF Len(strip(line)) = 0 \/ Len(strip(next_line[1])) = 0 THEN None
    ELSE LET l == rstrip_ws(line)
             n == rstrip_ws(next_line[1])
         IN  IF ~isupper(strip(l)[1]) THEN None
             ELSE IF Len(l) # Len(n) THEN None
             ELSE FindLoop(l, n, 1, FALSE, <<>>)

(***************************************************************************)
(* Python dict: a sequence of [key, value] records in insertion order;     *)
(* assigning to a key the dict holds replaces its value, in place.         *)
(***************************************************************************)
DictKeys(d) == [i \in DOMAIN d |-> d[i].key]

DictValues(d) == [i \in DOMAIN d |-> d[i].value]

HasKey(d, k) == \E i \in DOMAIN d : d[i].key = k

DictGet(d, k) == d[CHOOSE i \in DOMAIN d : d[i].key = k].value

DictSet(d, k, v) ==
    IF HasKey(d, k)
    THEN [i \in DOMAIN d |-> IF d[i].key = k THEN [key |-> k, value |-> v] ELSE d[i]]
    ELSE Append(d, [key |-> k, value |-> v])

\* dict(zip(keys, values))
RECURSIVE DictZip(_, _)
DictZip(keys, values) ==
    IF keys = <<>> \/ values = <<>> THEN <<>>
    ELSE LET n == IF Len(keys) < Len(values) THEN Len(keys) ELSE Len(values)
         IN  DictSet(DictZip(SubSeq(keys, 1, n - 1), SubSeq(values, 1, n - 1)),
                     keys[n], values[n])

\* a_list[start:stop] for 0 <= start, 0 <= stop
PySlice(a_list, start, stop) ==
    SubSeq(a_list, start + 1, IF stop < Len(a_list) THEN stop ELSE Len(a_list))

\* a_list.index(x), 0-based
PyIndex(a_list, x) == (CHOOSE i \in DOMAIN a_list :
                          a_list[i] = x /\ \A j \in 1..(i - 1) : a_list[j] # x) - 1

(***************************************************************************)
(* sections.py: SectionsFinder on the lines of the cleaned docstring       *)
(***************************************************************************)
\* NumpyDocString.sections without 'index'
standard_section_names ==
    << <<"S", "i", "g", "n", "a", "t", "u", "r", "e">>,
       <<"S", "u", "m", "m", "a", "r", "y">>,
       <<"E", "x", "t", "e", "n", "d", "e", "d", " ", "S", "u", "m", "m", "a", "r", "y">>,
       <<"P", "a", "r", "a", "m", "e", "t", "e", "r", "s">>,
       <<"R", "e", "t", "u", "r", "n", "s">>,
       <<"Y", "i", "e", "l", "d", "s">>,
       <<"R", "e", "c", "e", "i", "v", "e", "s">>,
       <<"R", "a", "i", "s", "e", "s">>,
       <<"W", "a", "r", "n", "s">>,
       <<"O", "t", "h", "e", "r", " ", "P", "a", "r", "a", "m", "e", "t", "e", "r", "s">>,
       <<"A", "t", "t", "r", "i", "b", "u", "t", "e", "s">>,
       <<"M", "e", "t", "h", "o", "d", "s">>,
       <<"S", "e", "e", " ", "A", "l", "s", "o">>,
       <<"N", "o", "t", "e", "s">>,
       <<"W", "a", "r", "n", "i", "n", "g", "s">>,
       <<"R", "e", "f", "e", "r", "e", "n", "c", "e", "s">>,
       <<"E", "x", "a", "m", "p", "l", "e", "s">> >>

StandardNames == {standard_section_names[i] : i \in DOMAIN standard_section_names}

sections_without_headers == SubSeq(standard_section_names, 1, 3)

RECURSIVE StartIndicesLoop(_, _, _)
StartIndicesLoop(pcn, ix, found) ==
    IF ix >= Len(pcn) THEN found
    ELSE LET name == find_from_lines(pcn[ix + 1].current, pcn[ix + 1].next)
         IN  StartIndicesLoop(pcn, ix + 1,
                 IF name # None THEN DictSet(found, name[1], ix) ELSE found)

all_visible_sections_start_indices(docstring_lines) ==
    IF Len(docstring_lines) = 0 THEN <<>>
    ELSE StartIndicesLoop(previous_current_next(docstring_lines), 0, <<>>)

\* all_visible_sections_ranges with b for the stop of a range instead of
\* b - 1
all_visible_sections_ranges_StopAtNextStart(docstring_lines) ==
    LET sections_indices == all_visible_sections_start_indices(docstring_lines)
        shifted == Tail(DictValues(sections_indices)) \o <<Len(docstring_lines)>>
        ranges == [i \in DOMAIN sections_indices |->
                      [start |-> sections_indices[i].value + 2,
                       stop |-> shifted[i]]]
    IN  IF Len(sections_indices) = 0 THEN <<>>
        ELSE DictZip(DictKeys(sections_indices), ranges)

\* a range is the record of its start and stop
all_visible_sections_ranges(docstring_lines) ==
    LET sections_indices == all_visible_sections_start_indices(docstring_lines)
        shifted == Tail(DictValues(sections_indices)) \o <<Len(docstring_lines)>>
        ranges == [i \in DOMAIN sections_indices |->
                      [start |-> sections_indices[i].value + 2,
                       stop |-> shifted[i] - 1]]
    IN  IF Len(sections_indices) = 0 THEN <<>>
        ELSE DictZip(DictKeys(sections_indices), ranges)

all_visible_sections(docstring_lines) ==
    DictKeys(all_visible_sections_ranges(docstring_lines))

RECURSIVE CustomSectionsLoop(_, _, _)
CustomSectionsLoop(docstring_lines, ranges, found) ==
    IF ranges = <<>> THEN found
    ELSE LET section == Head(ranges).key
             range_ == Head(ranges).value
         IN  CustomSectionsLoop(docstring_lines, Tail(ranges),
                 IF section \notin StandardNames
                 THEN DictSet(found, section,
                              PySlice(docstring_lines, range_.start, range_.stop + 1))
                 ELSE found)

custom_sections(docstring_lines) ==
    CustomSectionsLoop(docstring_lines,
                       all_visible_sections_ranges(docstring_lines), <<>>)

(***************************************************************************)
(* numpydoc, the parser of the standard sections: a header is a non-blank  *)
(* line followed by a line that starts, both stripped, with as many - or = *)
(* as the header has characters; a section holds the lines up to the next  *)
(* header, blank lines at both ends dropped; a section that the text does  *)
(* not have is empty.                                                      *)
(***************************************************************************)
Repeat(c, n) == [i \in 1..n |-> c]

NumpydocIsAtSection(docstring_lines, i) ==
    /\ i < Len(docstring_lines)
    /\ strip(docstring_lines[i]) # <<>>
    /\ LET l1 == strip(docstring_lines[i])
           l2 == strip(docstring_lines[i + 1])
       IN  startswith(l2, Repeat("-", Len(l1))) \/ startswith(l2, Repeat("=", Len(l1)))

RECURSIVE StripBlankLines(_)
StripBlankLines(some_lines) ==
    IF some_lines = <<>> THEN <<>>
    ELSE IF strip(Head(some_lines)) = <<>> THEN StripBlankLines(Tail(some_lines))
    ELSE IF strip(some_lines[Len(some_lines)]) = <<>>
         THEN StripBlankLines(SubSeq(some_lines, 1, Len(some_lines) - 1))
    ELSE some_lines

\* the lines from 1-based position i up to the next header or the end
RECURSIVE NumpydocReadToNextSection(_, _)
NumpydocReadToNextSection(docstring_lines, i) ==
    IF i > Len(docstring_lines) \/ NumpydocIsAtSection(docstring_lines, i) THEN <<>>
    ELSE <<docstring_lines[i]>> \o NumpydocReadToNextSection(docstring_lines, i + 1)

\* the lines from 1-based position i up to the next blank line or the end
RECURSIVE NumpydocReadToNextEmptyLine(_, _)
NumpydocReadToNextEmptyLine(docstring_lines, i) ==
    IF i > Len(docstring_lines) \/ strip(docstring_lines[i]) = <<>> THEN <<>>
    ELSE <<docstring_lines[i]>> \o NumpydocReadToNextEmptyLine(docstring_lines, i + 1)

NumpydocSummary(docstring_lines) ==
    IF NumpydocIsAtSection(docstring_lines, 1) THEN <<>>
    ELSE NumpydocReadToNextEmptyLine(docstring_lines, 1)

NumpydocHeaders(docstring_lines) ==
    {i \in (Len(NumpydocSummary(docstring_lines)) + 1)..Len(docstring_lines) :
        /\ NumpydocIsAtSection(docstring_lines, i)
        /\ ~(i > 1 /\ NumpydocIsAtSection(docstring_lines, i - 1))}

\* NumpyDocString.__getitem__
NumpydocGet(docstring_lines, k) ==
    IF k = standard_section_names[1] THEN <<>>
    ELSE IF k = standard_section_names[2] THEN NumpydocSummary(docstring_lines)
    ELSE IF k = standard_section_names[3]
         THEN StripBlankLines(NumpydocReadToNextSection(docstring_lines,
                  Len(NumpydocSummary(docstring_lines)) + 1))
    ELSE LET at == {i \in NumpydocHeaders(docstring_lines) :
                        strip(docstring_lines[i]) = k}
         IN  IF at = {} THEN <<>>
             ELSE StripBlankLines(NumpydocReadToNextSection(docstring_lines,
                      (CHOOSE i \in at : \A j \in at : i <= j) + 2))

\* numpydoc raises on a standard section that the text has twice
NumpydocAccepts(docstring_lines) ==
    \A i, j \in NumpydocHeaders(docstring_lines) :
        (/\ strip(docstring_lines[i]) = strip(docstring_lines[j])
         /\ strip(docstring_lines[i]) \in StandardNames) => i = j

standard_sections(docstring_lines) ==
    [i \in DOMAIN standard_section_names |->
        [key |-> standard_section_names[i],
         value |-> NumpydocGet(docstring_lines, standard_section_names[i])]]

\* the local helper of all_sections
get_consecutive_custom_section(visible, custom, a_section_name) ==
    IF \E i \in DOMAIN visible : visible[i] = a_section_name
    THEN LET ix == PyIndex(visible, a_section_name) + 1
             subset == PySlice(visible, ix, Len(visible))
             customs == {i \in DOMAIN subset : HasKey(custom, subset[i])}
         IN  IF customs = {} THEN None
             ELSE Some(subset[CHOOSE i \in customs : \A j \in customs : i <= j])
    ELSE None

\* the for loop of all_sections over standard_sections.items()
RECURSIVE AllSectionsLoop(_, _, _, _)
AllSectionsLoop(standard, visible, custom, acc) ==
    IF standard = <<>> THEN acc
    ELSE LET k == Head(standard).key
             v == Head(standard).value
             with_k == DictSet(acc, k, v)
             consecutive_custom_section ==
                 get_consecutive_custom_section(visible, custom, k)
         IN  AllSectionsLoop(Tail(standard), visible, custom,
                 IF consecutive_custom_section # None
                 THEN DictSet(with_k, consecutive_custom_section[1],
                              DictGet(custom, consecutive_custom_section[1]))
                 ELSE with_k)

\* all_sections without default_keys[ix_custom:] and default_values[ix_custom:]
all_sections_StandardTailDropped(docstring_lines) ==
    LET standard == standard_sections(docstring_lines)
        custom == custom_sections(docstring_lines)
        visible == all_visible_sections(docstring_lines)
        only_custom == \A i \in DOMAIN visible : HasKey(custom, visible[i])
        ix_custom == PyIndex(DictKeys(standard), standard_section_names[3]) + 1
    IN  IF only_custom
        THEN DictZip(PySlice(DictKeys(standard), 0, ix_custom) \o DictKeys(custom),
                     PySlice(DictValues(standard), 0, ix_custom) \o DictValues(custom))
        ELSE AllSectionsLoop(standard, visible, custom, <<>>)

\* all_sections with the custom sections after the last standard one when
\* only custom sections are visible
all_sections_CustomLast(docstring_lines) ==
    LET standard == standard_sections(docstring_lines)
        custom == custom_sections(docstring_lines)
        visible == all_visible_sections(docstring_lines)
        only_custom == \A i \in DOMAIN visible : HasKey(custom, visible[i])
    IN  IF only_custom
        THEN DictZip(DictKeys(standard) \o DictKeys(custom),
                     DictValues(standard) \o DictValues(custom))
        ELSE AllSectionsLoop(standard, visible, custom, <<>>)

all_sections(docstring_lines) ==
    LET standard == standard_sections(docstring_lines)
        custom == custom_sections(docstring_lines)
        visible == all_visible_sections(docstring_lines)
        only_custom == \A i \in DOMAIN visible : HasKey(custom, visible[i])
        default_keys == DictKeys(standard)
        default_values == DictValues(standard)
        ix_custom == PyIndex(default_keys, standard_section_names[3]) + 1
    IN  IF only_custom
        THEN DictZip(PySlice(default_keys, 0, ix_custom) \o DictKeys(custom)
                        \o PySlice(default_keys, ix_custom, Len(default_keys)),
                     PySlice(default_values, 0, ix_custom) \o DictValues(custom)
                        \o PySlice(default_values, ix_custom, Len(default_values)))
        ELSE AllSectionsLoop(standard, visible, custom, <<>>)

(***************************************************************************)
(* config.py                                                               *)
(***************************************************************************)
LangPython == <<"p", "y", "t", "h", "o", "n">>

LangRaw == <<"r", "a", "w">>

LangMarkdown == <<"m", "a", "r", "k", "d", "o", "w", "n">>

LangMarkdownRendered == LangMarkdown \o <<"_", "r", "e", "n", "d", "e", "r", "e", "d">>

default_language_examples == LangPython

SpecialExampleOutputLanguages ==
    [DEFAULT |-> default_language_examples,
     RAW |-> LangRaw,
     MARKDOWN_RENDERED |-> LangMarkdownRendered]

\* Config(): the fields the Examples renderer reads, with their defaults
DefaultConfig ==
    [examples_md_lang |-> default_language_examples,
     remove_doctest_blanklines |-> FALSE,
     remove_doctest_skip |-> FALSE]

(***************************************************************************)
(* examples_labeller.py: ExampleBlock                                      *)
(***************************************************************************)
\* the example lines of the block that carry the label line_type
LinesOfType(block, line_type) ==
    SelectSeq(block, LAMBDA exl : exl.line_type = line_type)

\* ExampleBlock.output_lang: the first OUTPUT_LANG line without its leading
\* '{' and trailing '}' characters, then stripped; None without such a line
BlockOutputLang(block) ==
    LET langs == LinesOfType(block, "OUTPUT_LANG")
    IN  IF langs = <<>> THEN None
        ELSE Some(strip(rstrip_chars(lstrip_chars(langs[1].line, {"{"}), {"}"})))

\* ExampleBlock._get_ix: min or max global_index of the lines of a type
get_ix(block, operator, line_type) ==
    LET ixs == {block[j].global_index : j \in
                    {j \in 1..Len(block) : block[j].line_type = line_type}}
    IN  IF ixs = {} THEN None
        ELSE IF operator = "min"
             THEN Some(CHOOSE i \in ixs : \A k \in ixs : i <= k)
             ELSE Some(CHOOSE i \in ixs : \A k \in ixs : i >= k)

ix_first_input(block) == get_ix(block, "min", "INPUT")

ix_last_input(block) == get_ix(block, "max", "INPUT")

ix_first_output(block) == get_ix(block, "min", "OUTPUT")

ix_last_output(block) == get_ix(block, "max", "OUTPUT")

(***************************************************************************)
(* parsers.py: ExampleBlockHandler and ExampleParser                       *)
(***************************************************************************)
\* the backquote character (the string token stands for the one character)
Backquote == "BACKQUOTE"

\* the Markdown code fence, three backquotes
Fence == <<Backquote, Backquote, Backquote>>

\* ExampleBlockHandler.output_lang
HandlerOutputLang(block, cfg) ==
    LET lang == IF BlockOutputLang(block) = None
                THEN cfg.examples_md_lang
                ELSE BlockOutputLang(block)[1]
    IN  IF lang = SpecialExampleOutputLanguages.RAW THEN <<>> ELSE lang

\* ExampleBlockHandler._text_line_to_md
text_line_to_md(example_line) == <<example_line.line>>

\* ExampleBlockHandler._output_lang_line_to_md
output_lang_line_to_md(example_line) == <<>>

\* a faulty _output_line_to_md: the configured default language alone decides
\* whether the output is fenced
output_line_to_md_DefaultDecidesFence(block, cfg, example_line) ==
    LET fenced ==
            cfg.examples_md_lang # SpecialExampleOutputLanguages.MARKDOWN_RENDERED
        opening ==
            IF Some(example_line.global_index) = ix_first_output(block) /\ fenced
            THEN <<Fence \o HandlerOutputLang(block, cfg)>>
            ELSE <<>>
        line ==
            IF cfg.remove_doctest_blanklines
            THEN blankline_sub(example_line.line)
            ELSE example_line.line
        closing ==
            IF Some(example_line.global_index) = ix_last_output(block) /\ fenced
            THEN <<Fence>>
            ELSE <<>>
    IN  opening \o <<line>> \o closing

\* a faulty _output_line_to_md: the blank-line marker is replaced whatever
\* remove_doctest_blanklines says
output_line_to_md_AlwaysSubstitutes(block, cfg, example_line) ==
    LET fenced ==
            HandlerOutputLang(block, cfg) # SpecialExampleOutputLanguages.MARKDOWN_RENDERED
        opening ==
            IF Some(example_line.global_index) = ix_first_output(block) /\ fenced
            THEN <<Fence \o HandlerOutputLang(block, cfg)>>
            ELSE <<>>
        line == blankline_sub(example_line.line)
        closing ==
            IF Some(example_line.global_index) = ix_last_output(block) /\ fenced
            THEN <<Fence>>
            ELSE <<>>
    IN  opening \o <<line>> \o closing

\* ExampleBlockHandler._output_line_to_md
output_line_to_md(block, cfg, example_line) ==
    LET fenced ==
            HandlerOutputLang(block, cfg) # SpecialExampleOutputLanguages.MARKDOWN_RENDERED
        opening ==
            IF Some(example_line.global_index) = ix_first_output(block) /\ fenced
            THEN <<Fence \o HandlerOutputLang(block, cfg)>>
            ELSE <<>>
        line ==
            IF cfg.remove_doctest_blanklines
            THEN blankline_sub(example_line.line)
            ELSE example_line.line
        closing ==
            IF Some(example_line.global_index) = ix_last_output(block) /\ fenced
            THEN <<Fence>>
            ELSE <<>>
    IN  opening \o <<line>> \o closing

\* a faulty _input_line_to_md: the fence is closed after the first INPUT line
input_line_to_md_ClosesAtFirst(block, cfg, example_line) ==
    LET opening ==
            IF Some(example_line.global_index) = ix_first_input(block)
            THEN <<Fence \o LangPython>>
            ELSE <<>>
        line ==
            IF cfg.remove_doctest_skip
            THEN doctest_skip_sub(example_line.line)
            ELSE example_line.line
        closing ==
            IF Some(example_line.global_index) = ix_first_input(block)
            THEN <<Fence>>
            ELSE <<>>
    IN  opening \o <<console_py_sub(line)>> \o closing

\* ExampleBlockHandler._input_line_to_md
input_line_to_md(block, cfg, example_line) ==
    LET opening ==
            IF Some(example_line.global_index) = ix_first_input(block)
            THEN <<Fence \o LangPython>>
            ELSE <<>>
        line ==
            IF cfg.remove_doctest_skip
            THEN doctest_skip_sub(example_line.line)
            ELSE example_line.line
        closing ==
            IF Some(example_line.global_index) = ix_last_input(block)
            THEN <<Fence>>
            ELSE <<>>
    IN  opening \o <<console_py_sub(line)>> \o closing

\* the transformers table of ExampleBlockHandler.markdown_lines, applied to
\* one example line
Transform(block, cfg, example_line) ==
    CASE example_line.line_type = "OUTPUT_LANG" -> output_lang_line_to_md(example_line)
      [] example_line.line_type = "TEXT" -> text_line_to_md(example_line)
      [] example_line.line_type = "INPUT" -> input_line_to_md(block, cfg, example_line)
      [] example_line.line_type = "OUTPUT" -> output_line_to_md(block, cfg, example_line)

RECURSIVE Flatten(_)
Flatten(seqs) ==
    IF seqs = <<>> THEN <<>> ELSE Head(seqs) \o Flatten(Tail(seqs))

\* ExampleBlockHandler.markdown_lines
MarkdownLines(block, cfg) ==
    Flatten([j \in 1..Len(block) |-> Transform(block, cfg, block[j])])

\* ExampleParser.to_md_lines
ToMdLines(ls, cfg) ==
    LET bs == ExampleBlocks(ls)
    IN  Flatten([k \in 1..Len(bs) |-> MarkdownLines(bs[k], cfg)])

\* for every line of MarkdownLines(block, cfg), the global_index of the
\* example line whose transformer emitted it (a history of the extend calls)
MarkdownLinesFrom(block, cfg) ==
    Flatten([j \in 1..Len(block) |->
                [n \in 1..Len(Transform(block, cfg, block[j])) |->
                    block[j].global_index]])

\* the same history for ExampleParser.to_md_lines
ToMdLinesFrom(ls, cfg) ==
    LET bs == ExampleBlocks(ls)
    IN  Flatten([k \in 1..Len(bs) |-> MarkdownLinesFrom(bs[k], cfg)])

(***************************************************************************)
(* Inputs of the labeller                                                  *)
(***************************************************************************)
LineInput == <<">", ">", ">", " ", "a">>

LineContinuation == <<".", ".", ".", " ", "b">>

LinePlain == <<"x">>

LineEmpty == <<>>

LineSpace == <<" ">>

LineLang == <<"{", "{", "p", "}", "}">>

LineLangPadded == <<" ", "{", "{", "p", "}", "}", " ">>

LabellerLines ==
    {LineInput, LineContinuation, LinePlain, LineEmpty, LineSpace, LineLang,
     LineLangPadded}

SeqsUpTo(S, n) == UNION {[1..k -> S] : k \in 0..n}

(***************************************************************************)
(* The labeller: an ExamplesLabeller is built on some lines, then its      *)
(* properties labels and example_blocks are read, in any order.            *)
(***************************************************************************)
InitLabeller ==
    /\ lines \in SeqsUpTo(LabellerLines, MaxLines)
    /\ called = {}
    /\ labels = <<>>
    /\ blocks = <<>>
    /\ config = DefaultConfig
    /\ md = <<>>
    /\ md_from = <<>>
    /\ section_name = None
    /\ sections = <<>>
    /\ all_members = <<>>
    /\ members = <<>>
    /\ parsed_members = None
    /\ raised = "none"
    /\ conflicting = {}
    /\ kwargs = <<>>
    /\ text = <<>>
    /\ ignore_errors = FALSE
    /\ rendered_text = None
    /\ placeholder = None
    /\ callable_obj = None
    /\ signature = None
    /\ loggers = {}
    /\ handlers = 0
    /\ threads = <<>>
    /\ param = None
    /\ namespace = None
    /\ passes = <<>>

LabelsCall ==
    /\ "labels" \notin called
    /\ called' = called \cup {"labels"}
    /\ labels' = Labels(lines)
    /\ UNCHANGED <<lines, blocks, config, md, md_from, section_name, sections, members_vars, core_vars, late_vars>>

ExampleBlocksCall ==
    /\ "example_blocks" \notin called
    /\ called' = called \cup {"example_blocks"}
    /\ blocks' = ExampleBlocks(lines)
    /\ UNCHANGED <<lines, labels, config, md, md_from, section_name, sections, members_vars, core_vars, late_vars>>

NextLabeller == LabelsCall \/ ExampleBlocksCall

SpecLabeller == InitLabeller /\ [][NextLabeller]_vars

(***************************************************************************)
(* Properties of the labeller                                              *)
(***************************************************************************)
IsBracketed(line) ==
    startswith(strip(line), <<"{", "{">>) /\ endswith(strip(line), <<"}", "}">>)

\* the label the transition rule gives line i (1-based) of ls, when the
\* lines before it carry the labels lbls
RuleType(ls, lbls, i) ==
    LET nonempty == strip(ls[i]) # <<>>
        afterInput == i > 1 /\ lbls[i - 1].line_type = "INPUT" /\ nonempty
        afterOutput ==
            /\ i > 2
            /\ lbls[i - 1].line_type = "OUTPUT"
            /\ nonempty
            /\ strip(ls[i - 2]) # <<>>
    IN  IF console_py_search(ls[i]) THEN "INPUT"
        ELSE IF afterInput \/ afterOutput THEN "OUTPUT"
        ELSE IF IsBracketed(ls[i]) THEN "OUTPUT_LANG"
        ELSE "TEXT"

\* C1: labels gives one label per line, in order, with global_index the line's
\* position, and the label of every line is the one the rule gives: INPUT iff
\* the line matches the console-input pattern; else OUTPUT iff it is non-empty
\* and follows an INPUT line, or is non-empty, follows an OUTPUT line and the
\* line before that one is non-empty; else OUTPUT_LANG iff its stripped text
\* is bracketed by {{ and }}; else TEXT.
C1_LabelsFollowRule ==
    "labels" \in called =>
        /\ Len(labels) = Len(lines)
        /\ \A i \in 1..Len(lines) :
            /\ labels[i].global_index = i - 1
            /\ labels[i].line = lines[i]
            /\ labels[i].line_type = RuleType(lines, labels, i)

\* C1 witness: a labelled sequence holding an OUTPUT line that follows an
\* OUTPUT line and a blank line that ends that run of OUTPUT lines
C1_Witness ==
    /\ "labels" \in called
    /\ \E i \in 2..Len(labels) :
        labels[i].line_type = "OUTPUT" /\ labels[i - 1].line_type = "OUTPUT"
    /\ \E i \in 2..Len(labels) :
        labels[i].line_type = "TEXT" /\ labels[i - 1].line_type = "OUTPUT"

RECURSIVE Concat(_)
Concat(seqs) ==
    IF seqs = <<>> THEN <<>> ELSE Head(seqs) \o Concat(Tail(seqs))

\* C2: the example_lines of the blocks of example_blocks, concatenated in
\* block order, are the labelled lines of the input: every line is in
\* exactly one block, in the original order.
C2_BlocksPartitionLines ==
    "example_blocks" \in called =>
        LET joined == Concat(blocks)
        IN  /\ Len(joined) = Len(lines)
            /\ \A i \in 1..Len(lines) :
                /\ joined[i].global_index = i - 1
                /\ joined[i].line = lines[i]
            /\ joined = Labels(lines)

\* C2 witness: a sequence cut into at least three blocks
C2_Witness ==
    /\ "example_blocks" \in called
    /\ Len(blocks) >= 3
    /\ Len(lines) = MaxLines

\* the block starts the rule names, 0-based, from the labels of ls
RuleStarts(ls) ==
    LET lbls == Labels(ls)
    IN  {i \in 0..(Len(ls) - 1) :
            \/ i = 0
            \/ i > 0 /\ lbls[i].line_type = "INPUT" /\ strip(ls[i + 1]) = <<>>
            \/ i > 0 /\ lbls[i].line_type = "OUTPUT"
                     /\ lbls[i + 1].line_type \in {"INPUT", "TEXT"}}

\* C3: the blocks start exactly at index 0, at every blank line that follows
\* an INPUT line, and at every INPUT or TEXT line that follows an OUTPUT line;
\* each block runs from its start up to the line before the next start, the
\* last one up to the last line.
C3_BlockStarts ==
    "example_blocks" \in called =>
        LET starts == RuleStarts(lines)
        IN  /\ \A k \in 1..Len(blocks) : blocks[k] # <<>>
            /\ {blocks[k][1].global_index : k \in 1..Len(blocks)} = starts
            /\ Len(blocks) = Cardinality(starts)
            /\ \A k \in 1..Len(blocks) : \A j \in 1..Len(blocks[k]) :
                /\ blocks[k][j].global_index = blocks[k][1].global_index + j - 1
                /\ j > 1 => blocks[k][j].global_index \notin starts
            /\ \A k \in 1..(Len(blocks) - 1) :
                blocks[k + 1][1].global_index =
                    blocks[k][Len(blocks[k])].global_index + 1
            /\ Len(blocks) > 0 =>
                LET last == blocks[Len(blocks)]
                IN last[Len(last)].global_index = Len(lines) - 1

\* C3 witness: one block started by a blank line after an INPUT line and one
\* started by an INPUT line after an OUTPUT line
C3_Witness ==
    /\ "example_blocks" \in called
    /\ \E k \in 2..Len(blocks) :
        /\ strip(blocks[k][1].line) = <<>>
        /\ blocks[k - 1][Len(blocks[k - 1])].line_type = "INPUT"
    /\ \E k \in 2..Len(blocks) :
        /\ blocks[k][1].line_type = "INPUT"
        /\ blocks[k - 1][Len(blocks[k - 1])].line_type = "OUTPUT"

\* the block is a run of TEXT / OUTPUT_LANG lines, then the INPUT lines
\* a+1..b, then a run of OUTPUT lines
HasShape(block, a, b) ==
    /\ \A j \in 1..a : block[j].line_type \in {"TEXT", "OUTPUT_LANG"}
    /\ \A j \in (a + 1)..b : block[j].line_type = "INPUT"
    /\ \A j \in (b + 1)..Len(block) : block[j].line_type = "OUTPUT"

\* C4 as claimed: every block is optional TEXT / OUTPUT_LANG lines, then
\* exactly one non-empty run of INPUT lines, then an optional run of OUTPUT
\* lines.
C4_EveryBlockHasOneInputRun ==
    "example_blocks" \in called =>
        \A k \in 1..Len(blocks) :
            \E a \in 0..Len(blocks[k]) : \E b \in (a + 1)..Len(blocks[k]) :
                HasShape(blocks[k], a, b)

\* C4 as amended: every block is optional TEXT / OUTPUT_LANG lines, then at
\* most one run of INPUT lines, then an optional run of OUTPUT lines that is
\* there only after INPUT lines; a block may hold no INPUT line at all.
C4_BlockShape ==
    "example_blocks" \in called =>
        \A k \in 1..Len(blocks) :
            \E a \in 0..Len(blocks[k]) : \E b \in a..Len(blocks[k]) :
                /\ HasShape(blocks[k], a, b)
                /\ b = a => b = Len(blocks[k])

\* C4 witness: a block with text, INPUT and OUTPUT lines, followed by a
\* block without any INPUT line
C4_Witness ==
    /\ "example_blocks" \in called
    /\ Len(blocks) >= 2
    /\ \E j \in 1..Len(blocks[1]) : blocks[1][j].line_type = "INPUT"
    /\ \E j \in 1..Len(blocks[1]) : blocks[1][j].line_type = "OUTPUT"
    /\ \A j \in 1..Len(blocks[2]) : blocks[2][j].line_type # "INPUT"

(***************************************************************************)
(* The Examples renderer: an ExampleParser is built on the lines of an     *)
(* Examples section and a Config, then to_md_lines is called.              *)
(***************************************************************************)
LineInputSkip == LineInput \o <<" ">> \o DoctestSkipMarker

LineBlankline == BlanklineMarker

LineBlanklinePadded == <<" ">> \o BlanklineMarker \o <<" ">>

LineLangRaw == <<"{", "{">> \o LangRaw \o <<"}", "}">>

LineLangRawPadded == LineLangRaw \o <<" ">>

LineLangMarkdown == <<"{", "{">> \o LangMarkdown \o <<"}", "}">>

LineLangMarkdownRendered == <<"{", "{">> \o LangMarkdownRendered \o <<"}", "}">>

RenderLines ==
    {LineInput, LineContinuation, LineInputSkip, LinePlain, LineEmpty,
     LineBlankline, LineBlanklinePadded, LineLangRaw, LineLangRawPadded,
     LineLangMarkdown, LineLangMarkdownRendered}

\* the configurations rendered: each language of interest with the two
\* doctest options at their defaults (off) or both set, as the expectations
\* of the tests are rendered
Configs ==
    {[examples_md_lang |-> lang,
      remove_doctest_blanklines |-> flag,
      remove_doctest_skip |-> flag] :
        lang \in {LangPython, LangRaw, LangMarkdownRendered}, flag \in BOOLEAN}

InitRender ==
    /\ lines \in SeqsUpTo(RenderLines, MaxRenderLines)
    /\ config \in Configs
    /\ called = {}
    /\ labels = <<>>
    /\ blocks = <<>>
    /\ md = <<>>
    /\ md_from = <<>>
    /\ section_name = None
    /\ sections = <<>>
    /\ all_members = <<>>
    /\ members = <<>>
    /\ parsed_members = None
    /\ raised = "none"
    /\ conflicting = {}
    /\ kwargs = <<>>
    /\ text = <<>>
    /\ ignore_errors = FALSE
    /\ rendered_text = None
    /\ placeholder = None
    /\ callable_obj = None
    /\ signature = None
    /\ loggers = {}
    /\ handlers = 0
    /\ threads = <<>>
    /\ param = None
    /\ namespace = None
    /\ passes = <<>>

ToMdLinesCall ==
    /\ "to_md_lines" \notin called
    /\ called' = called \cup {"to_md_lines"}
    /\ md' = ToMdLines(lines, config)
    /\ md_from' = ToMdLinesFrom(lines, config)
    /\ UNCHANGED <<lines, labels, blocks, config, section_name, sections, members_vars, core_vars, late_vars>>

NextRender == ToMdLinesCall

SpecRender == InitRender /\ [][NextRender]_vars

(***************************************************************************)
(* Properties of the Examples renderer                                     *)
(***************************************************************************)
TextsOf(example_lines) == [j \in 1..Len(example_lines) |-> example_lines[j].line]

\* the INPUT lines of a block as they are shown: without the doctest skip
\* marker when remove_doctest_skip is set, and without the prompt marker
ShownInputs(block, cfg) ==
    LET ins == TextsOf(LinesOfType(block, "INPUT"))
    IN  [j \in 1..Len(ins) |->
            console_py_sub(IF cfg.remove_doctest_skip
                           THEN doctest_skip_sub(ins[j])
                           ELSE ins[j])]

\* the OUTPUT lines of a block as they are shown
ShownOutputs(block, cfg) ==
    LET outs == TextsOf(LinesOfType(block, "OUTPUT"))
    IN  [j \in 1..Len(outs) |->
            IF cfg.remove_doctest_blanklines THEN blankline_sub(outs[j]) ELSE outs[j]]

\* the rendering of one block: its TEXT lines, one python fence around its
\* INPUT run, then its OUTPUT run, in a fence of its own unless the language
\* suppresses fencing
BlockRendering(block, cfg) ==
    LET ins == ShownInputs(block, cfg)
        outs == ShownOutputs(block, cfg)
        suppressed == HandlerOutputLang(block, cfg) = LangMarkdownRendered
    IN  TextsOf(LinesOfType(block, "TEXT"))
        \o (IF ins = <<>> THEN <<>> ELSE <<Fence \o LangPython>> \o ins \o <<Fence>>)
        \o (IF outs = <<>> THEN <<>>
            ELSE IF suppressed THEN outs
            ELSE <<Fence \o HandlerOutputLang(block, cfg)>> \o outs \o <<Fence>>)

\* the positions of the fence lines of a rendering, in order
FencePositions(rendered) ==
    {i \in 1..Len(rendered) : startswith(rendered[i], Fence)}

\* every fence line at an even rank among the fence lines is a bare closing
\* fence, and no fence is left open
FencesBalanced(rendered) ==
    LET fp == FencePositions(rendered)
        rank(i) == Cardinality({j \in fp : j <= i})
    IN  /\ Cardinality(fp) % 2 = 0
        /\ \A i \in fp : rank(i) % 2 = 0 => rendered[i] = Fence

\* C5: to_md_lines renders every block as its TEXT lines, then its INPUT run
\* in exactly one fence opened by ```python and closed by ```, holding the
\* input lines without the prompt marker, then its OUTPUT run in one separate
\* fence (none when fencing is suppressed); fences are balanced and never
\* nested; `>>> a`, `... b`, `x` gives a fence holding a, b and a fence
\* holding x.
C5_RenderingFencesRuns ==
    "to_md_lines" \in called =>
        LET bs == ExampleBlocks(lines)
        IN  /\ md = Flatten([k \in 1..Len(bs) |-> BlockRendering(bs[k], config)])
            /\ FencesBalanced(md)
            /\ (lines = <<LineInput, LineContinuation, LinePlain>>
                    /\ config.examples_md_lang = LangPython) =>
                md = << Fence \o LangPython, <<"a">>, <<"b">>, Fence,
                        Fence \o LangPython, <<"x">>, Fence >>

\* C5 witness: the two INPUT lines and the OUTPUT line of the example have
\* been rendered
C5_Witness ==
    /\ "to_md_lines" \in called
    /\ lines = <<LineInput, LineContinuation, LinePlain>>
    /\ config.examples_md_lang = LangPython
    /\ Len(md) = 7

\* the text between the opening {{ and the closing }} of a directive line,
\* trimmed
DirectiveToken(line) ==
    LET st == strip(line)
    IN  strip(SubSeq(st, 3, Len(st) - 2))

\* the lines of md that the OUTPUT lines of the block emitted
OutputRendering(block) ==
    LET gis == {block[j].global_index : j \in
                    {j \in 1..Len(block) : block[j].line_type = "OUTPUT"}}
        ps == {i \in 1..Len(md) : md_from[i] \in gis}
        first == CHOOSE i \in ps : \A k \in ps : i <= k
    IN  IF ps = {} THEN <<>>
        ELSE [j \in 1..Cardinality(ps) |-> md[first + j - 1]]

\* the output of the block is rendered in the language lang: untagged fence
\* for raw, no fence for markdown_rendered, a fence tagged lang otherwise
RenderedInLang(block, lang) ==
    LET outs == ShownOutputs(block, config)
    IN  OutputRendering(block) =
            IF lang = LangMarkdownRendered THEN outs
            ELSE IF lang = LangRaw THEN <<Fence>> \o outs \o <<Fence>>
            ELSE <<Fence \o lang>> \o outs \o <<Fence>>

HasOutput(block) == LinesOfType(block, "OUTPUT") # <<>>

\* C6: the output of every block is rendered in the language of the block's
\* own {{lang}} directive when it has one, else in the configured
\* examples_md_lang; raw gives an untagged fence and markdown_rendered no
\* fence, from either source.
C6_DirectiveThenDefault ==
    "to_md_lines" \in called =>
        LET bs == ExampleBlocks(lines)
        IN  \A k \in 1..Len(bs) :
                HasOutput(bs[k]) =>
                    LET langs == LinesOfType(bs[k], "OUTPUT_LANG")
                    IN  RenderedInLang(bs[k],
                            IF langs # <<>> THEN DirectiveToken(langs[1].line)
                            ELSE config.examples_md_lang)

\* the block's directive, its first OUTPUT_LANG line, is exactly this line
DirectiveIs(block, line) ==
    LET langs == LinesOfType(block, "OUTPUT_LANG")
    IN  langs # <<>> /\ langs[1].line = line

RenderedWith(flag) ==
    IF config.remove_doctest_blanklines = flag THEN md
    ELSE ToMdLines(lines, [config EXCEPT !.remove_doctest_blanklines = flag])

\* the two renderings differ exactly in the lines that OUTPUT lines
\* satisfying IsMarker emitted for their own text: empty when the flag is
\* set, verbatim when it is not
BlanklinesDiffer(IsMarker(_)) ==
    LET on == RenderedWith(TRUE)
        off == RenderedWith(FALSE)
        lbls == Labels(lines)
        marker(i) ==
            /\ lbls[md_from[i] + 1].line_type = "OUTPUT"
            /\ IsMarker(lbls[md_from[i] + 1].line)
            /\ ~startswith(off[i], Fence)
    IN  /\ Len(on) = Len(off)
        /\ Len(md_from) = Len(off)
        /\ \A i \in 1..Len(off) :
            IF marker(i)
            THEN on[i] = <<>> /\ off[i] = lbls[md_from[i] + 1].line
            ELSE on[i] = off[i]

IsExactMarker(line) == line = BlanklineMarker

IsPaddedMarker(line) == strip(line) = BlanklineMarker

HeaderChars == {" ", Nbsp, "A", "a", "-", "="}

HeaderLines == SeqsUpTo(HeaderChars, MaxHeaderLen)

InitFind ==
    /\ lines \in [1..1 -> HeaderLines] \cup [1..2 -> HeaderLines]
    /\ called = {}
    /\ labels = <<>>
    /\ blocks = <<>>
    /\ config = DefaultConfig
    /\ md = <<>>
    /\ md_from = <<>>
    /\ section_name = None
    /\ sections = <<>>
    /\ all_members = <<>>
    /\ members = <<>>
    /\ parsed_members = None
    /\ raised = "none"
    /\ conflicting = {}
    /\ kwargs = <<>>
    /\ text = <<>>
    /\ ignore_errors = FALSE
    /\ rendered_text = None
    /\ placeholder = None
    /\ callable_obj = None
    /\ signature = None
    /\ loggers = {}
    /\ handlers = 0
    /\ threads = <<>>
    /\ param = None
    /\ namespace = None
    /\ passes = <<>>

FindFromLinesCall ==
    /\ "_find_from_lines" \notin called
    /\ called' = called \cup {"_find_from_lines"}
    /\ section_name' =
        find_from_lines(lines[1], IF Len(lines) = 2 THEN Some(lines[2]) ELSE None)
    /\ UNCHANGED <<lines, labels, blocks, config, md, md_from, sections, members_vars, core_vars, late_vars>>

NextFind == FindFromLinesCall

SpecFind == InitFind /\ [][NextFind]_vars

\* the 1-based position of the first visible (non-whitespace) character
FirstVisible(line) == Len(line) - Len(lstrip_ws(line)) + 1

\* the conditions under which (line, next_line) is a section header
IsHeader(line, next_line) ==
    LET l == rstrip_ws(line)
        n == rstrip_ws(next_line)
        fv == FirstVisible(line)
    IN  /\ strip(line) # <<>>
        /\ strip(next_line) # <<>>
        /\ isupper(line[fv])
        /\ Len(l) = Len(n)
        /\ \A i \in 1..(fv - 1) : l[i] = " " /\ n[i] = " "
        /\ \A i \in fv..Len(l) : n[i] \in {"-", "="}

\* C9: _find_from_lines returns a name iff next_line exists, neither line is
\* blank, the first visible character of line is uppercase, both lines have
\* the same length once right-stripped, every position before the first
\* visible character of the header is a space in both lines and from there
\* on next_line holds only - and =; the name is the header text from its
\* first visible character to its end; otherwise the result is None.
C9_HeaderIffAligned ==
    "_find_from_lines" \in called =>
        section_name =
            IF Len(lines) = 2 /\ IsHeader(lines[1], lines[2])
            THEN Some(SubSeq(rstrip_ws(lines[1]), FirstVisible(lines[1]),
                             Len(rstrip_ws(lines[1]))))
            ELSE None

(***************************************************************************)
(* The section table of a docstring: the lines of the cleaned docstring    *)
(* are any few of these chunks one after the other, without blank lines    *)
(* at either end, which inspect.cleandoc removes.                          *)
(***************************************************************************)
DocText == <<"t">>

DocBlank == <<>>

HeaderParameters == standard_section_names[4]

HeaderReturns == standard_section_names[5]

HeaderNotes == standard_section_names[14]

\* custom sections
HeaderFunctions == <<"F", "u", "n", "c", "t", "i", "o", "n", "s">>

HeaderCustomSection ==
    <<"C", "u", "s", "t", "o", "m", " ", "S", "e", "c", "t", "i", "o", "n">>

\* a header and its underline
SectionChunk(header) == <<header, Repeat("-", Len(header))>>

DocChunks ==
    { <<DocText>>, <<DocBlank>>,
      SectionChunk(HeaderParameters), SectionChunk(HeaderReturns),
      SectionChunk(HeaderFunctions), SectionChunk(HeaderCustomSection),
      <<HeaderNotes, Repeat("-", Len(HeaderNotes) - 1)>> }

Docstrings ==
    {d \in {Concat(chunks) : chunks \in SeqsUpTo(DocChunks, MaxChunks)} :
        /\ d # <<>> => strip(d[1]) # <<>> /\ strip(d[Len(d)]) # <<>>
        /\ NumpydocAccepts(d)}

InitSections ==
    /\ lines \in Docstrings
    /\ called = {}
    /\ labels = <<>>
    /\ blocks = <<>>
    /\ config = DefaultConfig
    /\ md = <<>>
    /\ md_from = <<>>
    /\ section_name = None
    /\ sections = <<>>
    /\ all_members = <<>>
    /\ members = <<>>
    /\ parsed_members = None
    /\ raised = "none"
    /\ conflicting = {}
    /\ kwargs = <<>>
    /\ text = <<>>
    /\ ignore_errors = FALSE
    /\ rendered_text = None
    /\ placeholder = None
    /\ callable_obj = None
    /\ signature = None
    /\ loggers = {}
    /\ handlers = 0
    /\ threads = <<>>
    /\ param = None
    /\ namespace = None
    /\ passes = <<>>

AllSectionsCall ==
    /\ "all_sections" \notin called
    /\ called' = called \cup {"all_sections"}
    /\ sections' = all_sections(lines)
    /\ UNCHANGED <<lines, labels, blocks, config, md, md_from, section_name, members_vars, core_vars, late_vars>>

NextSections == AllSectionsCall

SpecSections == InitSections /\ [][NextSections]_vars

\* a standard section is in the text when a line holds its name, or, for
\* the sections without a header, when the text has a line at all
InText(docstring_lines, k) ==
    IF \E i \in DOMAIN sections_without_headers : sections_without_headers[i] = k
    THEN docstring_lines # <<>>
    ELSE \E i \in DOMAIN docstring_lines : strip(docstring_lines[i]) = k

\* C10: for every docstring, the empty one and one with only custom sections
\* included, all_sections has every standard section name as a key, once,
\* and the content of a standard section that the text does not have is empty.
C10_StandardKeysAlwaysPresent ==
    "all_sections" \in called =>
        \A k \in StandardNames :
            /\ Cardinality({i \in DOMAIN sections : sections[i].key = k}) = 1
            /\ ~InText(lines, k) => DictGet(sections, k) = <<>>

\* a table built for a text with custom sections only, and one built for a
\* text with a standard and a custom section, are both reachable; the
\* witness is the first
C10_Witness ==
    /\ "all_sections" \in called
    /\ all_visible_sections(lines) = <<HeaderFunctions, HeaderCustomSection>>
    /\ HasKey(sections, HeaderFunctions)
    /\ HasKey(sections, HeaderCustomSection)

\* the name of the header that the line at 1-based position i and the line
\* after it make, as an option
HeaderAt(docstring_lines, i) ==
    find_from_lines(docstring_lines[i],
                    IF i < Len(docstring_lines) THEN Some(docstring_lines[i + 1]) ELSE None)

\* the custom section names that the text has a header of
DetectedCustom(docstring_lines) ==
    {HeaderAt(docstring_lines, i)[1] : i \in {j \in DOMAIN docstring_lines :
        /\ HeaderAt(docstring_lines, j) # None
        /\ HeaderAt(docstring_lines, j)[1] \notin StandardNames}}

\* the 1-based positions of the headers named k
HeadersOf(docstring_lines, k) ==
    {i \in DOMAIN docstring_lines : HeaderAt(docstring_lines, i) = Some(k)}

\* the 1-based position of key k in a table, 0 when the table has no such key
KeyPos(d, k) ==
    IF HasKey(d, k) THEN CHOOSE i \in DOMAIN d : d[i].key = k ELSE 0

HeaderExtendedSummary == standard_section_names[3]

\* C11: a custom section whose header stands in the text before the header
\* of Parameters is a key of the section table, between the keys
\* Extended Summary and Parameters.
C11_CustomBeforeParametersPlaced ==
    "all_sections" \in called =>
        \A c \in DetectedCustom(lines) :
            (/\ HeadersOf(lines, HeaderParameters) # {}
             /\ \A i \in HeadersOf(lines, c) :
                    \A j \in HeadersOf(lines, HeaderParameters) : i < j)
            => /\ HasKey(sections, c)
               /\ KeyPos(sections, HeaderExtendedSummary) < KeyPos(sections, c)
               /\ KeyPos(sections, c) < KeyPos(sections, HeaderParameters)

\* the custom section names in the order of their first header in the text
RECURSIVE CustomInTextOrder(_, _, _)
CustomInTextOrder(docstring_lines, i, acc) ==
    IF i > Len(docstring_lines) THEN acc
    ELSE LET h == HeaderAt(docstring_lines, i)
             seen == {acc[j] : j \in DOMAIN acc}
         IN  CustomInTextOrder(docstring_lines, i + 1,
                 IF h # None /\ h[1] \notin StandardNames /\ h[1] \notin seen
                 THEN Append(acc, h[1]) ELSE acc)

NoStandardHeader(docstring_lines) ==
    \A k \in StandardNames : HeadersOf(docstring_lines, k) = {}

\* C12: when the text has no header of a standard section, the keys of the
\* section table are Signature, Summary, Extended Summary, then every custom
\* section of the text in textual order, then the other standard names.
C12_OnlyCustomAfterExtendedSummary ==
    ("all_sections" \in called /\ NoStandardHeader(lines)) =>
        DictKeys(sections) =
            SubSeq(standard_section_names, 1, 3)
            \o CustomInTextOrder(lines, 1, <<>>)
            \o SubSeq(standard_section_names, 4, Len(standard_section_names))

C12_Witness ==
    /\ "all_sections" \in called
    /\ NoStandardHeader(lines)
    /\ CustomInTextOrder(lines, 1, <<>>) = <<HeaderCustomSection, HeaderFunctions>>
    /\ Cardinality(HeadersOf(lines, HeaderCustomSection)) = 2
    /\ KeyPos(sections, HeaderCustomSection) = 4
    /\ KeyPos(sections, HeaderFunctions) = 5

(***************************************************************************)
(* parsers.py: MembersParser                                               *)
(***************************************************************************)
MemberFlag ==
    [DUNDER |-> <<"d", "u", "n", "d", "e", "r", "$">>,
     PRIVATE |-> <<"p", "r", "i", "v", "a", "t", "e", "$">>,
     PUBLIC |-> <<"p", "u", "b", "l", "i", "c", "$">>]

allowed_flags == <<MemberFlag.DUNDER, MemberFlag.PRIVATE, MemberFlag.PUBLIC>>

\* x in a_list
InList(x, a_list) == \E i \in DOMAIN a_list : a_list[i] = x

\* helpers.unique: the items without the repetitions, first occurrences kept
RECURSIVE unique(_)
unique(items) ==
    IF items = <<>> THEN <<>>
    ELSE LET before == unique(SubSeq(items, 1, Len(items) - 1))
             last == items[Len(items)]
         IN  IF InList(last, before) THEN before ELSE Append(before, last)

\* [v for v in a_list if ...] of _parse_flag, one comprehension per flag
StartsDunder(v) == startswith(v, <<"_", "_">>)

StartsPrivate(v) == startswith(v, <<"_">>) /\ ~startswith(v, <<"_", "_">>)

StartsPublic(v) == ~startswith(v, <<"_">>)

\* MembersParser._parse_flag
parse_flag(the_members, flag) ==
    IF flag = MemberFlag.DUNDER THEN [raised |-> "none", value |-> SelectSeq(the_members, StartsDunder)]
    ELSE IF flag = MemberFlag.PRIVATE THEN [raised |-> "none", value |-> SelectSeq(the_members, StartsPrivate)]
    ELSE IF flag = MemberFlag.PUBLIC THEN [raised |-> "none", value |-> SelectSeq(the_members, StartsPublic)]
    ELSE [raised |-> "InvalidMembersFlagException", value |-> <<>>]

\* MembersParser._parse_member_to_include
parse_member_to_include(the_members, value) ==
    LET name == IF startswith(value, <<"+">>) THEN Tail(value) ELSE value
    IN  IF ~InList(name, the_members)
        THEN [raised |-> "NonExistentMemberException", value |-> name]
        ELSE [raised |-> "none", value |-> name]

\* the for loop of __post_init__ over the stripped members; it ends at the
\* first exception
RECURSIVE MembersLoop(_, _, _)
MembersLoop(the_members, ms, st) ==
    IF ms = <<>> \/ st.raised # "none" THEN st
    ELSE LET m == Head(ms)
         IN  MembersLoop(the_members, Tail(ms),
                 IF InList(m, allowed_flags)
                 THEN LET flagged == parse_flag(the_members, m)
                      IN  [st EXCEPT !.candidates = @ \o flagged.value,
                                     !.raised = flagged.raised]
                 ELSE IF startswith(m, <<"-">>)
                 THEN [st EXCEPT !.exclusions = Append(@, Tail(m))]
                 ELSE LET parsed == parse_member_to_include(the_members, m)
                      IN  IF parsed.raised # "none"
                          THEN [st EXCEPT !.raised = parsed.raised]
                          ELSE [st EXCEPT !.candidates = Append(@, parsed.value),
                                          !.inclusions = Append(@, parsed.value)])

NotExcluded(exclusions, candidates) ==
    LET Kept(c) == ~InList(c, exclusions)
    IN  SelectSeq(candidates, Kept)

\* __post_init__ without the test of the conflicts
post_init_NoConflictTest(the_members, raw_members) ==
    LET stripped == [i \in DOMAIN raw_members |-> strip(raw_members[i])]
        st == MembersLoop(the_members, stripped,
                  [candidates |-> <<>>, exclusions |-> <<>>, inclusions |-> <<>>,
                   raised |-> "none"])
    IN  IF \E i \in DOMAIN stripped : stripped[i] = <<>>
        THEN [raised |-> "ValueError", conflicts |-> {}, parsed_members |-> None]
        ELSE IF st.raised # "none"
        THEN [raised |-> st.raised, conflicts |-> {}, parsed_members |-> None]
        ELSE [raised |-> "none", conflicts |-> {},
              parsed_members |-> Some(NotExcluded(st.exclusions, unique(st.candidates)))]

\* __post_init__ with only the first exclusion taken off the candidates
post_init_FirstExclusionOnly(the_members, raw_members) ==
    LET stripped == [i \in DOMAIN raw_members |-> strip(raw_members[i])]
        st == MembersLoop(the_members, stripped,
                  [candidates |-> <<>>, exclusions |-> <<>>, inclusions |-> <<>>,
                   raised |-> "none"])
        conflicts == {st.exclusions[i] : i \in DOMAIN st.exclusions}
                         \cap {st.inclusions[i] : i \in DOMAIN st.inclusions}
        first == IF st.exclusions = <<>> THEN <<>> ELSE <<st.exclusions[1]>>
    IN  IF \E i \in DOMAIN stripped : stripped[i] = <<>>
        THEN [raised |-> "ValueError", conflicts |-> {}, parsed_members |-> None]
        ELSE IF st.raised # "none"
        THEN [raised |-> st.raised, conflicts |-> {}, parsed_members |-> None]
        ELSE IF conflicts # {}
        THEN [raised |-> "MembersConflictsException", conflicts |-> conflicts,
              parsed_members |-> None]
        ELSE [raised |-> "none", conflicts |-> {},
              parsed_members |-> Some(NotExcluded(first, unique(st.candidates)))]

\* MembersParser.__post_init__: the exception raised, the conflicts that its
\* message names, and parsed_members
post_init(the_members, raw_members) ==
    LET stripped == [i \in DOMAIN raw_members |-> strip(raw_members[i])]
        st == MembersLoop(the_members, stripped,
                  [candidates |-> <<>>, exclusions |-> <<>>, inclusions |-> <<>>,
                   raised |-> "none"])
        conflicts == {st.exclusions[i] : i \in DOMAIN st.exclusions}
                         \cap {st.inclusions[i] : i \in DOMAIN st.inclusions}
    IN  IF \E i \in DOMAIN stripped : stripped[i] = <<>>
        THEN [raised |-> "ValueError", conflicts |-> {}, parsed_members |-> None]
        ELSE IF st.raised # "none"
        THEN [raised |-> st.raised, conflicts |-> {}, parsed_members |-> None]
        ELSE IF conflicts # {}
        THEN [raised |-> "MembersConflictsException", conflicts |-> conflicts,
              parsed_members |-> None]
        ELSE [raised |-> "none", conflicts |-> {},
              parsed_members |-> Some(NotExcluded(st.exclusions, unique(st.candidates)))]

(***************************************************************************)
(* A MembersParser is made for an object and a member-selection            *)
(* expression; dir(obj) is sorted.                                         *)
(***************************************************************************)
AttrInit == <<"_", "_", "i", "n", "i", "t", "_", "_">>

AttrDunderStart == <<"_", "_", "x">>

AttrHidden == <<"_", "h", "i", "d", "d", "e", "n">>

AttrPublicA == <<"p", "u", "b", "l", "i", "c", "_", "a">>

AttrPublicB == <<"p", "u", "b", "l", "i", "c", "_", "b">>

\* the attributes in the order of dir
AttrPool == <<AttrInit, AttrDunderStart, AttrHidden, AttrPublicA, AttrPublicB>>

\* dir(obj) of the objects: every selection of the pool, in the order of dir
Dirs ==
    {LET Chosen(v) == v \in chosen IN SelectSeq(AttrPool, Chosen) :
        chosen \in SUBSET {AttrPool[i] : i \in DOMAIN AttrPool}}

\* a token written as a flag that is no flag
UnknownFlag == <<"a", "l", "l", "$">>

MemberEntries ==
    { MemberFlag.DUNDER, MemberFlag.PRIVATE, MemberFlag.PUBLIC, UnknownFlag,
      AttrPublicA, <<"+">> \o AttrPublicA, <<"-">> \o AttrPublicA,
      <<" ", "-">> \o AttrPublicA \o <<" ">>,
      AttrHidden, <<"-">> \o AttrDunderStart,
      <<" ">> }

InitMembers ==
    /\ lines = <<>>
    /\ called = {}
    /\ labels = <<>>
    /\ blocks = <<>>
    /\ config = DefaultConfig
    /\ md = <<>>
    /\ md_from = <<>>
    /\ section_name = None
    /\ sections = <<>>
    /\ all_members \in Dirs
    /\ members \in SeqsUpTo(MemberEntries, MaxMembers)
    /\ parsed_members = None
    /\ raised = "none"
    /\ conflicting = {}
    /\ kwargs = <<>>
    /\ text = <<>>
    /\ ignore_errors = FALSE
    /\ rendered_text = None
    /\ placeholder = None
    /\ callable_obj = None
    /\ signature = None
    /\ loggers = {}
    /\ handlers = 0
    /\ threads = <<>>
    /\ param = None
    /\ namespace = None
    /\ passes = <<>>

MembersParserCall ==
    /\ "MembersParser" \notin called
    /\ called' = called \cup {"MembersParser"}
    /\ LET made == post_init(all_members, members)
       IN  /\ parsed_members' = made.parsed_members
           /\ raised' = made.raised
           /\ conflicting' = made.conflicts
    /\ UNCHANGED <<lines, labels, blocks, config, md, md_from, section_name,
                   sections, all_members, members, core_vars, late_vars>>

NextMembers == MembersParserCall

SpecMembers == InitMembers /\ [][NextMembers]_vars

\* the entries of the expression, trimmed
Entry(i) == strip(members[i])

IsFlagEntry(m) == InList(m, allowed_flags)

IsExclusionEntry(m) == ~IsFlagEntry(m) /\ startswith(m, <<"-">>)

IsInclusionEntry(m) == ~IsFlagEntry(m) /\ ~startswith(m, <<"-">>)

\* the name that an inclusion or an exclusion gives
EntryName(m) ==
    IF startswith(m, <<"+">>) \/ startswith(m, <<"-">>) THEN Tail(m) ELSE m

ExcludedNames == {EntryName(Entry(i)) : i \in {j \in DOMAIN members : IsExclusionEntry(Entry(j))}}

IncludedNames == {EntryName(Entry(i)) : i \in {j \in DOMAIN members : IsInclusionEntry(Entry(j))}}

AttributeNames == {all_members[i] : i \in DOMAIN all_members}

\* the candidates: what each flag expands to and each inclusion, in the order
\* of the expression
Candidates ==
    Concat([i \in DOMAIN members |->
        IF IsFlagEntry(Entry(i)) THEN parse_flag(all_members, Entry(i)).value
        ELSE IF IsInclusionEntry(Entry(i)) THEN <<EntryName(Entry(i))>>
        ELSE <<>>])

FirstIndex(items, x) == CHOOSE i \in DOMAIN items :
                            items[i] = x /\ \A j \in 1..(i - 1) : items[j] # x

\* C13: when no error is raised, parsed_members is the candidates (flag
\* expansions and inclusions in the order of the expression) without
\* repetitions, first occurrences kept, and without the excluded names: it
\* has no duplicates, no excluded name and only names of attributes.
C13_CandidatesDedupedMinusExclusions ==
    ("MembersParser" \in called /\ raised = "none") =>
        /\ parsed_members # None
        /\ LET r == parsed_members[1]
               names == {r[i] : i \in DOMAIN r}
           IN  /\ names = {Candidates[i] : i \in DOMAIN Candidates} \ ExcludedNames
               /\ \A i, j \in DOMAIN r : r[i] = r[j] => i = j
               /\ \A i, j \in DOMAIN r :
                      i < j => FirstIndex(Candidates, r[i]) < FirstIndex(Candidates, r[j])
               /\ names \cap ExcludedNames = {}
               /\ names \subseteq AttributeNames

C13_Witness ==
    /\ "MembersParser" \in called
    /\ raised = "none"
    /\ all_members = <<AttrInit, AttrHidden, AttrPublicA, AttrPublicB>>
    /\ members = <<MemberFlag.PUBLIC, <<"-">> \o AttrPublicA>>
    /\ parsed_members = Some(<<AttrPublicB>>)

\* the names that the expression both includes and excludes and that the
\* object has
Overlap == IncludedNames \cap ExcludedNames \cap AttributeNames

\* C14 as stated: a name of the object that is both included and excluded
\* makes the selection fail with the conflict error that names the
\* overlapping members, and no member list is produced.
C14_ConflictAlwaysConflictError ==
    ("MembersParser" \in called /\ Overlap # {}) =>
        /\ raised = "MembersConflictsException"
        /\ conflicting = IncludedNames \cap ExcludedNames
        /\ parsed_members = None

HasEmptyEntry == \E i \in DOMAIN members : Entry(i) = <<>>

\* C14: a name of the object that is both included and excluded always makes
\* the selection fail without a member list; the error is the conflict error
\* naming the overlapping members unless the expression has an empty entry
\* (ValueError) or includes a name that the object does not have
\* (NonExistentMemberException), which are raised first.
C14_ConflictFails ==
    ("MembersParser" \in called /\ Overlap # {}) =>
        /\ parsed_members = None
        /\ raised = IF HasEmptyEntry THEN "ValueError"
                    ELSE IF ~(IncludedNames \subseteq AttributeNames)
                         THEN "NonExistentMemberException"
                    ELSE "MembersConflictsException"
        /\ raised = "MembersConflictsException" =>
               conflicting = IncludedNames \cap ExcludedNames

C14_Witness ==
    /\ "MembersParser" \in called
    /\ members = << <<"-">> \o AttrPublicA, <<"+">> \o AttrPublicA >>
    /\ InList(AttrPublicA, all_members)
    /\ raised = "MembersConflictsException"
    /\ conflicting = {AttrPublicA}
    /\ parsed_members = None

\* C15: an expression without empty entries that names, as an inclusion or
\* as an exclusion, something that is not an attribute of the object is
\* rejected with the member-does-not-exist error.
C15_NamedMembersMustExist ==
    (/\ "MembersParser" \in called
     /\ ~HasEmptyEntry
     /\ ~((IncludedNames \cup ExcludedNames) \subseteq AttributeNames))
    => raised = "NonExistentMemberException"

\* the flag expansions as stated
IsDunderName(v) == startswith(v, <<"_", "_">>) /\ endswith(v, <<"_", "_">>)

IsPrivateName(v) == startswith(v, <<"_">>) /\ ~startswith(v, <<"_", "_">>)

IsPublicName(v) == ~startswith(v, <<"_">>)

\* C16: the dunder flag expands to exactly the attributes that start and end
\* with a double underscore, the private flag to those that start with one
\* underscore but not two, the public flag to those that start with none
\* (seen on the expressions that are one flag and nothing else).
C16_FlagExpansions ==
    ("MembersParser" \in called /\ Len(members) = 1) =>
        /\ members[1] = MemberFlag.DUNDER =>
               parsed_members = Some(SelectSeq(all_members, IsDunderName))
        /\ members[1] = MemberFlag.PRIVATE =>
               parsed_members = Some(SelectSeq(all_members, IsPrivateName))
        /\ members[1] = MemberFlag.PUBLIC =>
               parsed_members = Some(SelectSeq(all_members, IsPublicName))

(***************************************************************************)
(* Python values, as they come from a call or from the JSON of a           *)
(* placeholder: each is written as its literal.                            *)
(***************************************************************************)
PyNone == "None"

PyBools == {"True", "False"}

PyInts == {"-1", "0", "1", "3"}

PyStrs == {"''", "'3'", "'python'", "'raw'", "'np'", "'public$'", "'private$'",
           "'public_a'", "'+public_a'", "'-public_a'", "'__x'", "'testing.ok'",
           "'testing.none_attr'", "'monkey'"}

PyLists == {"[]", "['public$']", "['']", "[1]", "['+public_a', '-public_a']",
            "['__x']", "['public$', '-public_a']", "['private$', 'public$', 'public_a']"}

\* type(val).__name__
type_(val) ==
    IF val = PyNone THEN "NoneType"
    ELSE IF val \in PyBools THEN "bool"
    ELSE IF val \in PyInts THEN "int"
    ELSE IF val \in PyStrs THEN "str"
    ELSE "list"

\* isinstance(val, expected_type); bool is a subclass of int
isinstance(val, expected_type) ==
    \/ type_(val) = expected_type
    \/ expected_type = "int" /\ type_(val) = "bool"

\* the number that an int or a bool is
IntValue(val) ==
    CASE val = "-1" -> 0 - 1
      [] val = "0" -> 0
      [] val = "1" -> 1
      [] val = "3" -> 3
      [] val = "True" -> 1
      [] val = "False" -> 0

\* the items of a list
ListItems(val) ==
    CASE val = "[]" -> <<>>
      [] val = "['public$']" -> <<"'public$'">>
      [] val = "['']" -> <<"''">>
      [] val = "[1]" -> <<"1">>
      [] val = "['+public_a', '-public_a']" -> <<"'+public_a'", "'-public_a'">>
      [] val = "['__x']" -> <<"'__x'">>
      [] val = "['public$', '-public_a']" -> <<"'public$'", "'-public_a'">>
      [] val = "['private$', 'public$', 'public_a']" ->
             <<"'private$'", "'public$'", "'public_a'">>

(***************************************************************************)
(* config.py: Config                                                       *)
(***************************************************************************)
\* dataclass_fields(Config), in order
ConfigFields ==
    <<"alias", "examples_md_lang", "remove_doctest_blanklines", "remove_doctest_skip",
      "md_section_level", "ignore_custom_section_warning", "members">>

ConfigFieldNames == {ConfigFields[i] : i \in DOMAIN ConfigFields}

\* get_type_hints(Config) of the fields checked with isinstance
config_types ==
    [examples_md_lang |-> "str", remove_doctest_blanklines |-> "bool",
     remove_doctest_skip |-> "bool", md_section_level |-> "int",
     ignore_custom_section_warning |-> "bool"]

ConfigDefaults ==
    [alias |-> PyNone, examples_md_lang |-> "'python'",
     remove_doctest_blanklines |-> "False", remove_doctest_skip |-> "False",
     md_section_level |-> "3", ignore_custom_section_warning |-> "False",
     members |-> "[]"]

\* the test of one field in Config.__post_init__: TRUE when nothing is raised
FieldPasses(attr, val) ==
    IF attr = "alias" THEN isinstance(val, "str") \/ val = PyNone
    ELSE IF attr = "members"
    THEN /\ isinstance(val, "list")
         /\ \A i \in DOMAIN ListItems(val) : isinstance(ListItems(val)[i], "str")
    ELSE isinstance(val, config_types[attr])

\* Config(**kw) for keyword arguments that are fields of Config: the
\* exception raised and the Config made, as an option
MakeConfig(kw) ==
    LET values == [attr \in ConfigFieldNames |->
                      IF attr \in DOMAIN kw THEN kw[attr] ELSE ConfigDefaults[attr]]
    IN  IF \E i \in DOMAIN ConfigFields : ~FieldPasses(ConfigFields[i], values[ConfigFields[i]])
        THEN [raised |-> "TypeError", config |-> None]
        ELSE [raised |-> "none", config |-> Some(values)]

(***************************************************************************)
(* A Config is made with any values for its fields.                        *)
(***************************************************************************)
ConfigKwargs ==
    [alias : {PyNone, "'np'", "3"},
     examples_md_lang : {"'python'", PyNone},
     remove_doctest_blanklines : {"False", "True", "0"},
     remove_doctest_skip : {"False", "''"},
     md_section_level : {"3", "1", "0", "-1", "True", "'3'"},
     ignore_custom_section_warning : {"False"},
     members : {"[]", "['public$']", "['']", "[1]", "'public$'", PyNone}]

InitConfig ==
    /\ lines = <<>>
    /\ called = {}
    /\ labels = <<>>
    /\ blocks = <<>>
    /\ config = None
    /\ md = <<>>
    /\ md_from = <<>>
    /\ section_name = None
    /\ sections = <<>>
    /\ all_members = <<>>
    /\ members = <<>>
    /\ parsed_members = None
    /\ raised = "none"
    /\ conflicting = {}
    /\ kwargs \in ConfigKwargs
    /\ text = <<>>
    /\ ignore_errors = FALSE
    /\ rendered_text = None
    /\ placeholder = None
    /\ callable_obj = None
    /\ signature = None
    /\ loggers = {}
    /\ handlers = 0
    /\ threads = <<>>
    /\ param = None
    /\ namespace = None
    /\ passes = <<>>

ConfigCall ==
    /\ "Config" \notin called
    /\ called' = called \cup {"Config"}
    /\ LET made == MakeConfig(kwargs)
       IN  /\ config' = made.config
           /\ raised' = made.raised
    /\ UNCHANGED <<lines, labels, blocks, md, md_from, section_name, sections,
                   all_members, members, parsed_members, conflicting,
                   kwargs, text, ignore_errors, rendered_text, placeholder, late_vars>>

NextConfig == ConfigCall

SpecConfig == InitConfig /\ [][NextConfig]_vars

\* C20: every Config that is made has md_section_level >= 1 and a members
\* list of non-empty strings; making one that is not so raises an error.
C20_ConfigInvariant ==
    ("Config" \in called /\ config # None) =>
        /\ IntValue(config[1].md_section_level) >= 1
        /\ \A i \in DOMAIN ListItems(config[1].members) :
               /\ isinstance(ListItems(config[1].members)[i], "str")
               /\ ListItems(config[1].members)[i] # "''"

(***************************************************************************)
(* placeholder.py: Placeholder.  A line is a sequence of characters in     *)
(* which a "key":value member of a JSON object is one item.                *)
(***************************************************************************)
PairObjOk == "\"obj\":\"testing.ok\""

PairObjMonkey == "\"obj\":\"monkey\""

PairAlias == "\"alias\":\"np\""

PairLevel == "\"md_section_level\":3"

PairLevelStr == "\"md_section_level\":\"3\""

PairMembersPublic == "\"members\":[\"public$\"]"

PairMembersConflict == "\"members\":[\"+public_a\", \"-public_a\"]"

PairMembersEmptyEntry == "\"members\":[\"\"]"

PairMembersNonExistent == "\"members\":[\"__x\"]"

PairInvalidKey == "\"invalid_key\":\"foo\""

Pairs == {PairObjOk, PairObjMonkey, PairAlias, PairLevel, PairLevelStr,
          PairMembersPublic, PairMembersConflict, PairMembersEmptyEntry,
          PairMembersNonExistent, PairInvalidKey}

\* the key of a member of a JSON object
PairKey(pair) ==
    IF pair \in {PairObjOk, PairObjMonkey} THEN "obj"
    ELSE IF pair = PairAlias THEN "alias"
    ELSE IF pair \in {PairLevel, PairLevelStr} THEN "md_section_level"
    ELSE IF pair = PairInvalidKey THEN "invalid_key"
    ELSE "members"

\* the value of a member of a JSON object, as the Python value json.loads gives
PairValue(pair) ==
    CASE pair = PairObjOk -> "'testing.ok'"
      [] pair = PairObjMonkey -> "'monkey'"
      [] pair = PairAlias -> "'np'"
      [] pair = PairLevel -> "3"
      [] pair = PairLevelStr -> "'3'"
      [] pair = PairMembersPublic -> "['public$']"
      [] pair = PairMembersConflict -> "['+public_a', '-public_a']"
      [] pair = PairMembersEmptyEntry -> "['']"
      [] pair = PairMembersNonExistent -> "['__x']"
      [] pair = PairInvalidKey -> "'foo'"

NotSpace(c) == c \notin Whitespace

\* the members of a JSON object after the first, each after a comma
RECURSIVE JsonMembers(_, _)
JsonMembers(items, parsed) ==
    IF items = <<>> THEN [raised |-> "none", parsed |-> parsed]
    ELSE IF Len(items) >= 2 /\ items[1] = "," /\ items[2] \in Pairs
    THEN JsonMembers(SubSeq(items, 3, Len(items)),
                     DictSet(parsed, PairKey(items[2]), PairValue(items[2])))
    ELSE [raised |-> "JSONDecodeError", parsed |-> <<>>]

\* json.loads of a JSON object; whitespace between the items is skipped and
\* a key given twice keeps its last value
json_loads(s) ==
    LET items == SelectSeq(s, NotSpace)
        n == Len(items)
    IN  IF n < 2 \/ items[1] # "{" \/ items[n] # "}"
        THEN [raised |-> "JSONDecodeError", parsed |-> <<>>]
        ELSE IF n = 2 THEN [raised |-> "none", parsed |-> <<>>]
        ELSE IF items[2] \notin Pairs
        THEN [raised |-> "JSONDecodeError", parsed |-> <<>>]
        ELSE JsonMembers(SubSeq(items, 3, n - 1),
                         <<[key |-> PairKey(items[2]), value |-> PairValue(items[2])]>>)

required == <<"obj">>

optional == ConfigFields

\* Placeholder.__post_init__ without the test of the extra keys
Placeholder_post_init_ExtraKeysAllowed(line) ==
    LET loaded == json_loads(SubSeq(line, 2, Len(line) - 1))
        parsed == loaded.parsed
        missing_required == {i \in DOMAIN required : ~HasKey(parsed, required[i])}
        all_keys == required \o optional
        known == {i \in DOMAIN parsed : InList(parsed[i].key, optional)}
        kw == [k \in {parsed[i].key : i \in known} |-> DictGet(parsed, k)]
        made == MakeConfig(kw)
    IN  IF loaded.raised # "none" THEN [raised |-> loaded.raised, placeholder |-> None]
        ELSE IF missing_required # {} THEN [raised |-> "ValueError", placeholder |-> None]
        ELSE IF made.raised # "none" THEN [raised |-> made.raised, placeholder |-> None]
        ELSE [raised |-> "none",
              placeholder |-> Some([line |-> line, parsed |-> parsed,
                                    obj_namespace |-> DictGet(parsed, "obj"),
                                    config |-> made.config[1]])]

\* the keyword arguments given to Config: the parsed keys but obj
config_kwargs(parsed) ==
    [k \in {parsed[i].key : i \in DOMAIN parsed} \ {"obj"} |-> DictGet(parsed, k)]

\* Placeholder.__post_init__ from the loaded JSON on: loaded is what
\* json.loads gave and made what Config(**kwargs) gives, which is only
\* looked at once the keys have passed
verify_keys_and_make(line, loaded, made) ==
    LET parsed == loaded.parsed
        missing_required == {i \in DOMAIN required : ~HasKey(parsed, required[i])}
        all_keys == required \o optional
        extra_keys == {i \in DOMAIN parsed : ~InList(parsed[i].key, all_keys)}
    IN  IF loaded.raised # "none" THEN [raised |-> loaded.raised, placeholder |-> None]
        ELSE IF missing_required # {} THEN [raised |-> "ValueError", placeholder |-> None]
        ELSE IF extra_keys # {} THEN [raised |-> "ValueError", placeholder |-> None]
        ELSE IF made.raised # "none" THEN [raised |-> made.raised, placeholder |-> None]
        ELSE [raised |-> "none",
              placeholder |-> Some([line |-> line, parsed |-> parsed,
                                    obj_namespace |-> DictGet(parsed, "obj"),
                                    config |-> made.config[1]])]

\* Placeholder.__post_init__: the exception raised and the Placeholder made,
\* as an option
Placeholder_post_init(line) ==
    verify_keys_and_make(
        line,
        json_loads(SubSeq(line, 2, Len(line) - 1)),
        MakeConfig(config_kwargs(json_loads(SubSeq(line, 2, Len(line) - 1)).parsed)))

LooksLikePlaceholder(line) ==
    startswith(line, <<"{", "{">>) /\ endswith(line, <<"}", "}">>)

\* Placeholder.search
search(line) ==
    IF LooksLikePlaceholder(strip(line)) THEN Placeholder_post_init(strip(line))
    ELSE [raised |-> "none", placeholder |-> None]

\* Placeholder.search_no_err: the exception is logged and None is returned
search_no_err(line) ==
    IF ~LooksLikePlaceholder(strip(line)) THEN [raised |-> "none", placeholder |-> None]
    ELSE IF Placeholder_post_init(strip(line)).raised # "none"
    THEN [raised |-> "none", placeholder |-> None]
    ELSE Placeholder_post_init(strip(line))

(***************************************************************************)
(* Placeholder.search on a line of a text                                  *)
(***************************************************************************)
BodyItems == {PairObjOk, PairLevel, PairLevelStr, PairInvalidKey, ",", " ", "t"}

PlaceholderLines ==
    {lead \o open \o body \o close \o trail :
        lead \in {<<>>, <<" ">>},
        open \in {<<>>, <<"{">>, <<"{", "{">>},
        body \in SeqsUpTo(BodyItems, MaxBody),
        close \in {<<>>, <<"}">>, <<"}", "}">>},
        trail \in {<<>>, <<" ">>, <<"t">>}}

InitPlaceholder ==
    /\ lines = <<>>
    /\ called = {}
    /\ labels = <<>>
    /\ blocks = <<>>
    /\ config = DefaultConfig
    /\ md = <<>>
    /\ md_from = <<>>
    /\ section_name = None
    /\ sections = <<>>
    /\ all_members = <<>>
    /\ members = <<>>
    /\ parsed_members = None
    /\ raised = "none"
    /\ conflicting = {}
    /\ kwargs = <<>>
    /\ text \in {<<line>> : line \in PlaceholderLines}
    /\ ignore_errors = FALSE
    /\ rendered_text = None
    /\ placeholder = None
    /\ callable_obj = None
    /\ signature = None
    /\ loggers = {}
    /\ handlers = 0
    /\ threads = <<>>
    /\ param = None
    /\ namespace = None
    /\ passes = <<>>

SearchCall ==
    /\ called = {}
    /\ called' = {"search"}
    /\ LET found == search(text[1])
       IN  /\ placeholder' = found.placeholder
           /\ raised' = found.raised
    /\ UNCHANGED <<lines, labels, blocks, config, md, md_from, section_name, sections,
                   all_members, members, parsed_members, conflicting,
                   kwargs, text, ignore_errors, rendered_text, late_vars>>

SearchNoErrCall ==
    /\ called = {}
    /\ called' = {"search_no_err"}
    /\ LET found == search_no_err(text[1])
       IN  /\ placeholder' = found.placeholder
           /\ raised' = found.raised
    /\ UNCHANGED <<lines, labels, blocks, config, md, md_from, section_name, sections,
                   all_members, members, parsed_members, conflicting,
                   kwargs, text, ignore_errors, rendered_text, late_vars>>

NextPlaceholder == SearchCall \/ SearchNoErrCall

SpecPlaceholder == InitPlaceholder /\ [][NextPlaceholder]_vars

\* the line given to search, trimmed
Trimmed == strip(text[1])

Recognized == startswith(Trimmed, <<"{", "{">>) /\ endswith(Trimmed, <<"}", "}">>)

\* what stands between the outer braces of a recognized line, spaces left out
JsonItems == SelectSeq(SubSeq(Trimmed, 2, Len(Trimmed) - 1), NotSpace)

\* the items between the braces of the JSON object
JsonBody == SubSeq(JsonItems, 2, Len(JsonItems) - 1)

\* a JSON object: braces around members separated by commas
WellFormedJson ==
    /\ Len(JsonItems) >= 2
    /\ JsonItems[1] = "{"
    /\ JsonItems[Len(JsonItems)] = "}"
    /\ JsonBody # <<>> => Len(JsonBody) % 2 = 1
    /\ \A i \in DOMAIN JsonBody :
           IF i % 2 = 1 THEN JsonBody[i] \in Pairs ELSE JsonBody[i] = ","

JsonKeys == {PairKey(JsonBody[i]) : i \in {j \in DOMAIN JsonBody : JsonBody[j] \in Pairs}}

AllowedKeys == {"obj"} \cup ConfigFieldNames

\* C19: search gives None for a line that, trimmed, does not start with {{
\* and end with }}; for a line that does, it either gives a Placeholder whose
\* parsed keys include obj and are all among obj and the fields of Config,
\* or raises; malformed JSON, a missing obj and an unknown key each raise.
C19_SearchRecognizesByDelimiters ==
    called = {"search"} =>
        /\ ~Recognized => (placeholder = None /\ raised = "none")
        /\ Recognized =>
               \/ /\ raised = "none"
                  /\ placeholder # None
                  /\ HasKey(placeholder[1].parsed, "obj")
                  /\ \A i \in DOMAIN placeholder[1].parsed :
                         placeholder[1].parsed[i].key \in AllowedKeys
               \/ /\ raised # "none"
                  /\ placeholder = None
        /\ (Recognized /\ ~WellFormedJson) => raised # "none"
        /\ (Recognized /\ WellFormedJson /\ "obj" \notin JsonKeys) => raised # "none"
        /\ (Recognized /\ WellFormedJson /\ ~(JsonKeys \subseteq AllowedKeys)) =>
               raised # "none"

C19_Witness ==
    /\ called = {"search"}
    /\ text[1] = <<" ", "{", "{", PairObjOk, ",", PairLevel, "}", "}", " ">>
    /\ raised = "none"
    /\ placeholder # None
    /\ DictKeys(placeholder[1].parsed) = <<"obj", "md_section_level">>

(***************************************************************************)
(* core.py: render_string and what it calls                                *)
(***************************************************************************)
\* the characters of a Python str
StrChars(val) ==
    CASE val = "''" -> <<>>
      [] val = "'public$'" -> MemberFlag.PUBLIC
      [] val = "'private$'" -> MemberFlag.PRIVATE
      [] val = "'public_a'" -> AttrPublicA
      [] val = "'+public_a'" -> <<"+">> \o AttrPublicA
      [] val = "'-public_a'" -> <<"-">> \o AttrPublicA
      [] val = "'__x'" -> AttrDunderStart

\* pydoc.locate followed by dir: the objects that can be imported and their
\* attributes, as an option
Locate(obj_namespace) ==
    IF obj_namespace \in {"'testing.ok'", "'testing.none_attr'"}
    THEN Some(<<AttrInit, AttrHidden, AttrPublicA, AttrPublicB>>)
    ELSE None

\* PyObjParser.__post_init__ of the engine of a member: pydoc.locate gives
\* None for an attribute whose value is None, as public_b of
\* testing.none_attr is
locates_none(member_namespace) ==
    member_namespace = <<"'testing.none_attr'", ".">> \o AttrPublicB

\* ParserEngine(obj_namespace=..., config=...): the namespace and the alias
\* are texts, the other fields those of the Config
parser_engine(obj_namespace, alias, cfg, some_members) ==
    [obj_namespace |-> obj_namespace,
     alias |-> alias,
     examples_md_lang |-> cfg.examples_md_lang,
     remove_doctest_blanklines |-> cfg.remove_doctest_blanklines,
     remove_doctest_skip |-> cfg.remove_doctest_skip,
     md_section_level |-> cfg.md_section_level,
     ignore_custom_section_warning |-> cfg.ignore_custom_section_warning,
     members |-> some_members]

\* the engine of the object itself
object_engine(obj_namespace, cfg) ==
    parser_engine(<<obj_namespace>>,
                  IF cfg.alias = PyNone THEN None ELSE Some(<<cfg.alias>>),
                  cfg, cfg.members)

\* member_engine with the members of the configuration kept
member_engine_MembersKept(obj_namespace, cfg, member) ==
    parser_engine(<<obj_namespace, ".">> \o member,
                  IF cfg.alias = PyNone THEN None ELSE Some(<<cfg.alias, ".">> \o member),
                  cfg, cfg.members)

\* the engine of a member: the namespace and the alias are followed by the
\* member, and the Config is made again without members
member_engine(obj_namespace, cfg, member) ==
    parser_engine(<<obj_namespace, ".">> \o member,
                  IF cfg.alias = PyNone THEN None ELSE Some(<<cfg.alias, ".">> \o member),
                  cfg, ConfigDefaults.members)

\* ParserEngine.to_md_string: the Markdown tells the object and what of the
\* configuration the rendering depends on
to_md_string(engine) ==
    <<"MARKDOWN">> \o engine.obj_namespace
    \o (IF engine.alias = None THEN <<>> ELSE <<"alias">> \o engine.alias[1])
    \o <<engine.examples_md_lang, engine.md_section_level>>

\* '\n\n'.join(results)
RECURSIVE JoinResults(_)
JoinResults(results) ==
    IF results = <<>> THEN <<>>
    ELSE IF Len(results) = 1 THEN results[1]
    ELSE results[1] \o <<"\n\n">> \o JoinResults(Tail(results))

\* the engines of parse_and_render: that of the object, then one for each
\* parsed member
engines_of(obj_namespace, cfg, some_members) ==
    <<object_engine(obj_namespace, cfg)>>
    \o [i \in DOMAIN some_members |-> member_engine(obj_namespace, cfg, some_members[i])]

\* the Markdown of each engine
results_of(engines) == [i \in DOMAIN engines |-> to_md_string(engines[i])]

\* the engines that are made before one of them raises
RECURSIVE made_engines(_)
made_engines(engines) ==
    IF engines = <<>> THEN <<>>
    ELSE IF locates_none(Head(engines).obj_namespace) THEN <<>>
    ELSE <<Head(engines)>> \o made_engines(Tail(engines))

\* the for loop of parse_and_render over the parsed members
render_engines(engines) ==
    IF Len(made_engines(engines)) < Len(engines)
    THEN [raised |-> "NonExistentObjectException", md |-> <<>>,
          engines |-> made_engines(engines)]
    ELSE [raised |-> "none", md |-> JoinResults(results_of(engines)), engines |-> engines]

\* the end of parse_and_render: parser is what MembersParser gives for the
\* members of the configuration, after the object itself has been rendered
render_members(obj_namespace, cfg, parser) ==
    IF parser.raised # "none"
    THEN [raised |-> parser.raised, md |-> <<>>,
          engines |-> <<object_engine(obj_namespace, cfg)>>]
    ELSE render_engines(engines_of(obj_namespace, cfg, parser.parsed_members[1]))

\* parsers.parse_and_render: the exception raised, the Markdown and the
\* engines whose to_md_string was called
parse_and_render(obj_namespace, cfg) ==
    IF Locate(obj_namespace) = None
    THEN [raised |-> "NonExistentObjectException", md |-> <<>>, engines |-> <<>>]
    ELSE IF Len(ListItems(cfg.members)) = 0
    THEN [raised |-> "none", md |-> to_md_string(object_engine(obj_namespace, cfg)),
          engines |-> <<object_engine(obj_namespace, cfg)>>]
    ELSE render_members(
             obj_namespace, cfg,
             post_init(Locate(obj_namespace)[1],
                       [i \in DOMAIN ListItems(cfg.members) |->
                            StrChars(ListItems(cfg.members)[i])]))

\* core.render_obj_docstring
render_obj_docstring(obj, kw) ==
    IF ~isinstance(obj, "str") THEN [raised |-> "TypeError", md |-> <<>>]
    ELSE IF MakeConfig(kw).raised # "none"
    THEN [raised |-> MakeConfig(kw).raised, md |-> <<>>]
    ELSE parse_and_render(obj, MakeConfig(kw).config[1])

\* core._render_placeholder
render_placeholder(a_placeholder) ==
    render_obj_docstring(a_placeholder.obj_namespace, a_placeholder.config)

\* _render_placeholder_no_err with the errors of MembersParser raised again
render_placeholder_no_err_MembersErrorsRaised(a_placeholder) ==
    LET made == render_placeholder(a_placeholder)
    IN  IF made.raised \in {"MembersConflictsException", "NonExistentMemberException"}
        THEN made
        ELSE IF made.raised # "none" THEN [raised |-> "none", md |-> a_placeholder.line]
        ELSE made

\* core._render_placeholder_no_err: the exception is logged and the line of
\* the placeholder is returned
render_placeholder_no_err(a_placeholder) ==
    IF render_placeholder(a_placeholder).raised # "none"
    THEN [raised |-> "none", md |-> a_placeholder.line]
    ELSE render_placeholder(a_placeholder)

\* the for loop of render_string over string.splitlines(); it ends at the
\* first exception
RECURSIVE RenderStringLoop(_, _, _)
RECURSIVE RenderStringFound(_, _, _, _)
RECURSIVE RenderStringMade(_, _, _, _)

\* the end of an iteration: made is what rendering the placeholder gave
RenderStringMade(some_lines, no_err, new_lines, made) ==
    IF made.raised # "none" THEN [raised |-> made.raised, new_lines |-> None]
    ELSE RenderStringLoop(Tail(some_lines), no_err, Append(new_lines, made.md))

\* an iteration from the search on: found is what the search gave for the
\* line
RenderStringFound(some_lines, no_err, new_lines, found) ==
    IF found.raised # "none" THEN [raised |-> found.raised, new_lines |-> None]
    ELSE IF found.placeholder = None
    THEN RenderStringLoop(Tail(some_lines), no_err, Append(new_lines, Head(some_lines)))
    ELSE RenderStringMade(some_lines, no_err, new_lines,
                          IF no_err THEN render_placeholder_no_err(found.placeholder[1])
                          ELSE render_placeholder(found.placeholder[1]))

RenderStringLoop(some_lines, no_err, new_lines) ==
    IF some_lines = <<>> THEN [raised |-> "none", new_lines |-> Some(new_lines)]
    ELSE RenderStringFound(some_lines, no_err, new_lines,
                           IF no_err THEN search_no_err(Head(some_lines))
                           ELSE search(Head(some_lines)))

\* core.render_string, from the lines of the string to the lines it joins
render_string(some_lines, no_err) == RenderStringLoop(some_lines, no_err, <<>>)

(***************************************************************************)
(* render_string on a text of a few lines                                  *)
(***************************************************************************)
PlaceholderOf(body) == <<"{", "{">> \o body \o <<"}", "}">>

LineGoodPlaceholder == PlaceholderOf(<<PairObjOk>>)

LineGoodMembers == PlaceholderOf(<<PairObjOk, ",", PairMembersPublic>>)

LineMonkey == PlaceholderOf(<<PairObjMonkey>>)

LineMonkeyPadded == <<" ">> \o PlaceholderOf(<<PairObjMonkey>>) \o <<" ">>

LineMembersConflict == PlaceholderOf(<<PairObjOk, ",", PairMembersConflict>>)

LineMembersNonExistent == PlaceholderOf(<<PairObjOk, ",", PairMembersNonExistent>>)

LineMembersEmptyEntry == PlaceholderOf(<<PairObjOk, ",", PairMembersEmptyEntry>>)

LineLevelStr == PlaceholderOf(<<PairObjOk, ",", PairLevelStr>>)

LineBadJsonPadded == <<" ">> \o PlaceholderOf(<<"t">>)

LineInvalidKey == PlaceholderOf(<<PairObjOk, ",", PairInvalidKey>>)

TextLines ==
    { <<"t">>, <<" ", "t">>, LineGoodPlaceholder, LineGoodMembers, LineMonkey,
      LineMonkeyPadded, LineMembersConflict, LineMembersNonExistent,
      LineMembersEmptyEntry, LineLevelStr, LineBadJsonPadded, LineInvalidKey }

InitRenderString ==
    /\ lines = <<>>
    /\ called = {}
    /\ labels = <<>>
    /\ blocks = <<>>
    /\ config = DefaultConfig
    /\ md = <<>>
    /\ md_from = <<>>
    /\ section_name = None
    /\ sections = <<>>
    /\ all_members = <<>>
    /\ members = <<>>
    /\ parsed_members = None
    /\ raised = "none"
    /\ conflicting = {}
    /\ kwargs = <<>>
    /\ text \in SeqsUpTo(TextLines, MaxTextLines)
    /\ ignore_errors \in BOOLEAN
    /\ rendered_text = None
    /\ placeholder = None
    /\ callable_obj = None
    /\ signature = None
    /\ loggers = {}
    /\ handlers = 0
    /\ threads = <<>>
    /\ param = None
    /\ namespace = None
    /\ passes = <<>>

RenderStringCall ==
    /\ "render_string" \notin called
    /\ called' = called \cup {"render_string"}
    /\ LET made == render_string(text, ignore_errors)
       IN  /\ rendered_text' = made.new_lines
           /\ raised' = made.raised
    /\ UNCHANGED <<lines, labels, blocks, config, md, md_from, section_name, sections,
                   all_members, members, parsed_members, conflicting,
                   kwargs, text, ignore_errors, placeholder, late_vars>>

NextRenderString == RenderStringCall

SpecRenderString == InitRenderString /\ [][NextRenderString]_vars

\* a line that, trimmed, has the delimiters of a placeholder
IsPlaceholderLine(line) ==
    startswith(strip(line), <<"{", "{">>) /\ endswith(strip(line), <<"}", "}">>)

\* the exception that parsing or rendering the placeholder of a line ends
\* with, "none" for a placeholder that is rendered
ErrorOf(line) ==
    LET made == Placeholder_post_init(strip(line))
    IN  IF made.raised # "none" THEN made.raised
        ELSE render_placeholder(made.placeholder[1]).raised

\* the Markdown of the placeholder of a line that is rendered
RenderingOf(line) ==
    render_placeholder(Placeholder_post_init(strip(line)).placeholder[1]).md

FailingLine(line) == IsPlaceholderLine(line) /\ ErrorOf(line) # "none"

\* C17: with ignore_errors=True render_string raises nothing and gives, line
\* for line and in order, the line itself for a line that is no placeholder
\* and for a line whose placeholder cannot be parsed or rendered, and the
\* rendering for a valid placeholder.
C17_FailingLinesLeftUnchanged ==
    ("render_string" \in called /\ ignore_errors) =>
        /\ raised = "none"
        /\ rendered_text # None
        /\ Len(rendered_text[1]) = Len(text)
        /\ \A i \in DOMAIN text :
               rendered_text[1][i] =
                   IF ~IsPlaceholderLine(text[i]) \/ FailingLine(text[i])
                   THEN text[i] ELSE RenderingOf(text[i])

\* a line whose placeholder ends with an error of the member selection or
\* with a type violation of the configuration
ConfigurationError(line) ==
    /\ IsPlaceholderLine(line)
    /\ \/ Placeholder_post_init(strip(line)).raised = "TypeError"
       \/ /\ Placeholder_post_init(strip(line)).raised = "none"
          /\ ErrorOf(line) \in {"MembersConflictsException",
                                "NonExistentMemberException", "ValueError"}

\* C18 as stated: with ignore_errors=True too, render_string raises the
\* error of a member selection or of a configuration violation.
C18_ConfigurationErrorsAlwaysRaised ==
    (/\ "render_string" \in called
     /\ ignore_errors
     /\ \E i \in DOMAIN text : ConfigurationError(text[i]))
    => raised # "none"

FailingLines == {i \in DOMAIN text : FailingLine(text[i])}

\* C18: the errors of a member selection and the type violations of a
\* configuration are raised by render_string when ignore_errors is False
\* (the error of the first failing line is raised and no text is returned);
\* with ignore_errors=True nothing is raised and a text is returned.
C18_ConfigurationErrorsRaisedUnlessIgnored ==
    "render_string" \in called =>
        /\ ignore_errors => (raised = "none" /\ rendered_text # None)
        /\ (~ignore_errors /\ FailingLines # {}) =>
               LET first == CHOOSE i \in FailingLines : \A j \in FailingLines : i <= j
               IN  /\ raised = ErrorOf(text[first])
                   /\ rendered_text = None

C18_Witness ==
    /\ "render_string" \in called
    /\ ignore_errors
    /\ text = <<LineMembersConflict, LineLevelStr>>
    /\ ConfigurationError(text[1])
    /\ ConfigurationError(text[2])
    /\ raised = "none"
    /\ rendered_text = Some(text)

(***************************************************************************)
(* ExampleBlock.output_lang against the directive of the block             *)
(***************************************************************************)
\* C30: the output_lang of a block with an OUTPUT_LANG line is the token
\* between {{ and }} of its first OUTPUT_LANG line, trimmed, for every line
\* labelled OUTPUT_LANG; a block without such a line has None.
C30_OutputLangIsDirectiveToken ==
    "example_blocks" \in called =>
        \A b \in DOMAIN blocks :
            LET langs == LinesOfType(blocks[b], "OUTPUT_LANG")
            IN  IF langs = <<>> THEN BlockOutputLang(blocks[b]) = None
                ELSE BlockOutputLang(blocks[b]) = Some(DirectiveToken(langs[1].line))

(***************************************************************************)
(* The section table against the headers of the text                       *)
(***************************************************************************)
\* the 1-based positions of the headers of the text
HeaderPositions(docstring_lines) ==
    {i \in DOMAIN docstring_lines : HeaderAt(docstring_lines, i) # None}

\* a header named c is the first header after a header named s
ImmediatelyFollows(docstring_lines, c, s) ==
    \E i \in HeadersOf(docstring_lines, s) : \E j \in HeadersOf(docstring_lines, c) :
        /\ i < j
        /\ \A h \in HeaderPositions(docstring_lines) : ~(i < h /\ h < j)

VisibleStandard(docstring_lines) ==
    {k \in StandardNames : HeadersOf(docstring_lines, k) # {}}

\* C23: when the text has a header of a standard section, a custom section
\* is the key directly after the standard section s in the section table
\* exactly when it is the detected section that immediately follows s in the
\* text.
C23_SplicedIffImmediatelyFollows ==
    ("all_sections" \in called /\ VisibleStandard(lines) # {}) =>
        \A s \in VisibleStandard(lines) : \A c \in DetectedCustom(lines) :
            (HasKey(sections, c) /\ KeyPos(sections, c) = KeyPos(sections, s) + 1)
            <=> ImmediatelyFollows(lines, c, s)

\* the detected names in the order of their first header in the text
RECURSIVE DetectedInTextOrder(_, _, _)
DetectedInTextOrder(docstring_lines, i, acc) ==
    IF i > Len(docstring_lines) THEN acc
    ELSE LET h == HeaderAt(docstring_lines, i)
         IN  DetectedInTextOrder(docstring_lines, i + 1,
                 IF h # None /\ ~InList(h[1], acc) THEN Append(acc, h[1]) ELSE acc)

\* the 0-based start recorded for a detected name: that of its last header
RecordedStart(docstring_lines, k) ==
    (CHOOSE i \in HeadersOf(docstring_lines, k) :
        \A j \in HeadersOf(docstring_lines, k) : j <= i) - 1

\* the spans of the detected names, in mapping order, each from its start
\* plus 2 to the start of the next name minus 1, and for the last name to
\* last_stop
SpansTo(docstring_lines, last_stop) ==
    LET names == DetectedInTextOrder(docstring_lines, 1, <<>>)
    IN  [i \in DOMAIN names |->
            [key |-> names[i],
             value |-> [start |-> RecordedStart(docstring_lines, names[i]) + 2,
                        stop |-> IF i < Len(names)
                                 THEN RecordedStart(docstring_lines, names[i + 1]) - 1
                                 ELSE last_stop]]]

C28_NoCustomSectionDropped ==
    "all_sections" \in called =>
        \A c \in DetectedCustom(lines) :
            /\ Cardinality({i \in DOMAIN sections : sections[i].key = c}) = 1
            /\ DictGet(sections, c) = DictGet(custom_sections(lines), c)

\* C29: the detected sections in mapping order have strictly increasing
\* starts and pairwise disjoint spans, and the lines read for a custom
\* section hold no header and no underline of a detected section.
C29_StartsIncreaseSpansDisjoint ==
    "all_sections" \in called =>
        LET idx == all_visible_sections_start_indices(lines)
            rgs == all_visible_sections_ranges(lines)
        IN  /\ \A i, j \in DOMAIN idx : i < j => idx[i].value < idx[j].value
            /\ \A i, j \in DOMAIN rgs :
                   i # j => \A p \in 0..Len(lines) :
                                ~(/\ rgs[i].value.start <= p /\ p < rgs[i].value.stop
                                  /\ rgs[j].value.start <= p /\ p < rgs[j].value.stop)
            /\ \A i \in DOMAIN rgs :
                   rgs[i].key \notin StandardNames =>
                       \A p \in 0..(Len(lines) - 1) :
                           (rgs[i].value.start <= p /\ p <= rgs[i].value.stop) =>
                               /\ (p + 1) \notin HeaderPositions(lines)
                               /\ p \notin HeaderPositions(lines)

(***************************************************************************)
(* MembersParser on a token written as a flag                              *)
(***************************************************************************)
\* an entry that, stripped, ends with $ and is none of the three flags
IsUnknownFlagEntry(m) ==
    /\ endswith(strip(m), <<"$">>)
    /\ ~InList(strip(m), allowed_flags)

\* C27: a member selection made of flags, with an unknown flag among them,
\* is rejected with InvalidMembersFlagException.
C27_UnknownFlagIsInvalidFlag ==
    (/\ "MembersParser" \in called
     /\ \E i \in DOMAIN members : IsUnknownFlagEntry(members[i])
     /\ \A i \in DOMAIN members :
            IsUnknownFlagEntry(members[i]) \/ InList(strip(members[i]), allowed_flags))
    => raised = "InvalidMembersFlagException"

(***************************************************************************)
(* parsers.py: SignatureParser.get_signature. inspect.signature gives the  *)
(* Signature of a callable or raises ValueError (no signature can be       *)
(* provided) or TypeError (the type of object is not supported).           *)
(***************************************************************************)
\* str(Signature) of some callables
Signatures ==
    {"()", "(a)", "(self, /, *args, **kwargs)",
     "(string: str, ignore_errors: bool = False) -> str"}

InspectErrors == {"ValueError", "TypeError"}

\* SignatureParser.get_signature: the exception raised and the string
\* returned, as an option
get_signature(o) ==
    IF ~o.is_callable THEN [raised |-> "AssertionError", value |-> None]
    ELSE IF o.signature \in Signatures THEN [raised |-> "none", value |-> Some(o.signature)]
    ELSE IF o.signature = "ValueError"
    THEN IF o.has_init
         THEN IF o.init_signature \in Signatures
              THEN [raised |-> "none", value |-> Some(o.init_signature)]
              ELSE [raised |-> o.init_signature, value |-> None]
         ELSE [raised |-> "SignatureNotFoundException", value |-> None]
    ELSE [raised |-> o.signature, value |-> None]

\* the objects: what callable(obj), inspect.signature(obj),
\* hasattr(obj, '__init__') and inspect.signature(obj.__init__) give
Callables ==
    [is_callable : BOOLEAN,
     signature : Signatures \cup InspectErrors,
     has_init : BOOLEAN,
     init_signature : Signatures \cup InspectErrors]

InitSignature ==
    /\ lines = <<>>
    /\ called = {}
    /\ labels = <<>>
    /\ blocks = <<>>
    /\ config = DefaultConfig
    /\ md = <<>>
    /\ md_from = <<>>
    /\ section_name = None
    /\ sections = <<>>
    /\ all_members = <<>>
    /\ members = <<>>
    /\ parsed_members = None
    /\ raised = "none"
    /\ conflicting = {}
    /\ kwargs = <<>>
    /\ text = <<>>
    /\ ignore_errors = FALSE
    /\ rendered_text = None
    /\ placeholder = None
    /\ callable_obj \in {Some(o) : o \in Callables}
    /\ signature = None
    /\ loggers = {}
    /\ handlers = 0
    /\ threads = <<>>
    /\ param = None
    /\ namespace = None
    /\ passes = <<>>

GetSignatureCall ==
    /\ called = {}
    /\ called' = {"get_signature"}
    /\ LET got == get_signature(callable_obj[1])
       IN  /\ signature' = got.value
           /\ raised' = got.raised
    /\ UNCHANGED <<lines, labels, blocks, config, md, md_from, section_name, sections,
                   all_members, members, parsed_members, conflicting, kwargs, text,
                   ignore_errors, rendered_text, placeholder, callable_obj, loggers,
                   handlers, threads, param, namespace, passes>>

NextSignature == GetSignatureCall

SpecSignature == InitSignature /\ [][NextSignature]_vars

\* C21: get_signature on a callable returns the signature of the object
\* when inspect.signature gives it; when that fails it returns the signature
\* of the object's __init__; and when this one cannot be had either it
\* raises SignatureNotFoundException and no other exception.
C21_FallbackThenNotFound ==
    (called = {"get_signature"} /\ callable_obj[1].is_callable) =>
        LET o == callable_obj[1]
        IN  IF o.signature \in Signatures
            THEN raised = "none" /\ signature = Some(o.signature)
            ELSE IF o.has_init /\ o.init_signature \in Signatures
            THEN raised = "none" /\ signature = Some(o.init_signature)
            ELSE raised = "SignatureNotFoundException" /\ signature = None

(***************************************************************************)
(* parsers.py: MdEscaper and ParametersLikeSectionParser._param_to_md_lines *)
(***************************************************************************)
Backslash == "BACKSLASH"

\* MdEscaper.escape: s.translate of _ and * to the character after a backslash
RECURSIVE escape(_)
escape(s) ==
    IF s = <<>> THEN <<>>
    ELSE (IF Head(s) \in {"_", "*"} THEN <<Backslash, Head(s)>> ELSE <<Head(s)>>)
         \o escape(Tail(s))

\* param_description_lines_to_md_lines
param_description_lines_to_md_lines(desc_lines) ==
    [i \in DOMAIN desc_lines |->
        IF strip(desc_lines[i]) # <<>> THEN <<" ", " ">> \o desc_lines[i]
        ELSE desc_lines[i]]

\* the first line of _param_to_md_lines for the texts of the name and of
\* the type
first_param_line(name, shown_type) ==
    LET prefix == IF name # <<>> \/ shown_type # <<>> THEN <<"*", " ">> ELSE <<>>
        sep_name_type == IF name # <<>> /\ shown_type # <<>> THEN <<" ", ":", " ">>
                         ELSE <<>>
    IN  strip(prefix \o name \o sep_name_type \o shown_type)

\* ParametersLikeSectionParser._param_to_md_lines; the type that is shown is
\* made from param.type, not from the stripped and escaped type_
param_to_md_lines(a_param) ==
    LET escaped_name == strip(escape(a_param.name))
        name == IF escaped_name # <<>> THEN <<"*", "*">> \o escaped_name \o <<"*", "*">>
                ELSE <<>>
        shown_type == IF a_param.type # <<>>
                      THEN <<"*", "*", "_">> \o a_param.type \o <<"_", "*", "*", " ">>
                      ELSE <<>>
        first == first_param_line(name, shown_type)
    IN  IF Len(a_param.desc) = 0 THEN <<first>>
        ELSE <<first, <<>>>> \o param_description_lines_to_md_lines(a_param.desc)

ParamChars == {"a", "_", "*", " "}

\* the Parameter records of numpydoc: a name, a type and description lines
Parameters ==
    [name : SeqsUpTo(ParamChars, MaxParamLen),
     type : SeqsUpTo(ParamChars, MaxParamLen),
     desc : {<<>>, <<<<"d", "_">>>>, <<<<"d">>, <<>>>>}]

InitParam ==
    /\ lines = <<>>
    /\ called = {}
    /\ labels = <<>>
    /\ blocks = <<>>
    /\ config = DefaultConfig
    /\ md = <<>>
    /\ md_from = <<>>
    /\ section_name = None
    /\ sections = <<>>
    /\ all_members = <<>>
    /\ members = <<>>
    /\ parsed_members = None
    /\ raised = "none"
    /\ conflicting = {}
    /\ kwargs = <<>>
    /\ text = <<>>
    /\ ignore_errors = FALSE
    /\ rendered_text = None
    /\ placeholder = None
    /\ callable_obj = None
    /\ signature = None
    /\ loggers = {}
    /\ handlers = 0
    /\ threads = <<>>
    /\ param \in {Some(x) : x \in Parameters}
    /\ namespace = None
    /\ passes = <<>>

ParamToMdLinesCall ==
    /\ called = {}
    /\ called' = {"_param_to_md_lines"}
    /\ md' = param_to_md_lines(param[1])
    /\ UNCHANGED <<lines, labels, blocks, config, md_from, section_name, sections,
                   all_members, members, parsed_members, raised, conflicting, kwargs,
                   text, ignore_errors, rendered_text, placeholder, callable_obj,
                   signature, loggers, handlers, threads, param, namespace, passes>>

NextParam == ParamToMdLinesCall

SpecParam == InitParam /\ [][NextParam]_vars

\* the first line for a name and a type that are both stripped and escaped
EscapedFirstLine(a_param) ==
    LET escaped_name == strip(escape(a_param.name))
        escaped_type == escape(strip(a_param.type))
    IN  first_param_line(
            IF escaped_name # <<>> THEN <<"*", "*">> \o escaped_name \o <<"*", "*">>
            ELSE <<>>,
            IF escaped_type # <<>>
            THEN <<"*", "*", "_">> \o escaped_type \o <<"_", "*", "*", " ">>
            ELSE <<>>)

\* C25: the first line rendered for a parameter record shows the name and
\* the type escaped, every _ and * of the two after a backslash, and the
\* type stripped.
C25_NameAndTypeEscaped ==
    called = {"_param_to_md_lines"} => md[1] = EscapedFirstLine(param[1])

(***************************************************************************)
(* parse_and_render is called once with the namespace of an object and a   *)
(* Config.                                                                 *)
(***************************************************************************)
Namespaces == {"'testing.ok'", "'testing.none_attr'", "'monkey'"}

EngineConfigs ==
    [alias : {PyNone, "'np'"},
     examples_md_lang : {"'python'", "'raw'"},
     remove_doctest_blanklines : {"False"},
     remove_doctest_skip : {"False"},
     md_section_level : {"3", "1"},
     ignore_custom_section_warning : {"False"},
     members : {"[]", "['public$']", "['public$', '-public_a']",
                "['private$', 'public$', 'public_a']", "['+public_a', '-public_a']",
                "['__x']"}]

InitParseAndRender ==
    /\ lines = <<>>
    /\ called = {}
    /\ labels = <<>>
    /\ blocks = <<>>
    /\ config \in {Some(cfg) : cfg \in EngineConfigs}
    /\ md = <<>>
    /\ md_from = <<>>
    /\ section_name = None
    /\ sections = <<>>
    /\ all_members = <<>>
    /\ members = <<>>
    /\ parsed_members = None
    /\ raised = "none"
    /\ conflicting = {}
    /\ kwargs = <<>>
    /\ text = <<>>
    /\ ignore_errors = FALSE
    /\ rendered_text = None
    /\ placeholder = None
    /\ callable_obj = None
    /\ signature = None
    /\ loggers = {}
    /\ handlers = 0
    /\ threads = <<>>
    /\ param = None
    /\ namespace \in Namespaces
    /\ passes = <<>>

\* MembersParser(obj=engine.obj, members=config.members), when it is made
members_parser(obj_namespace, cfg) ==
    post_init(Locate(obj_namespace)[1],
              [i \in DOMAIN ListItems(cfg.members) |-> StrChars(ListItems(cfg.members)[i])])

ParseAndRenderCall ==
    /\ "parse_and_render" \notin called
    /\ called' = called \cup {"parse_and_render"}
    /\ raised' = parse_and_render(namespace, config[1]).raised
    /\ md' = parse_and_render(namespace, config[1]).md
    /\ passes' = parse_and_render(namespace, config[1]).engines
    /\ parsed_members' =
           IF Locate(namespace) = None \/ Len(ListItems(config[1].members)) = 0
           THEN None
           ELSE members_parser(namespace, config[1]).parsed_members
    /\ UNCHANGED <<lines, labels, blocks, config, md_from, section_name, sections,
                   all_members, members, conflicting, kwargs, text, ignore_errors,
                   rendered_text, placeholder, callable_obj, signature, loggers,
                   handlers, threads, param, namespace>>

NextParseAndRender == ParseAndRenderCall

SpecParseAndRender == InitParseAndRender /\ [][NextParseAndRender]_vars

\* the results joined by a blank line, from the last one
RECURSIVE JoinedByBlankLine(_)
JoinedByBlankLine(results) ==
    IF Len(results) = 0 THEN <<>>
    ELSE IF Len(results) = 1 THEN results[1]
    ELSE JoinedByBlankLine(SubSeq(results, 1, Len(results) - 1))
         \o <<"\n\n">> \o results[Len(results)]

\* the members have been parsed into k members
ResolvesMembers ==
    /\ "parse_and_render" \in called
    /\ parsed_members # None

\* C26: parse_and_render with a member selection that resolves to k members
\* renders k + 1 times, the object first and then each resolved member once
\* in resolved order, each member with an empty member selection, and
\* returns the renderings joined by a blank line
C26_MembersRenderedOnceEach ==
    ResolvesMembers =>
        /\ raised = "none"
        /\ Len(passes) = Len(parsed_members[1]) + 1
        /\ passes[1].obj_namespace = <<namespace>>
        /\ \A i \in DOMAIN parsed_members[1] :
               /\ passes[i + 1].obj_namespace = <<namespace, ".">> \o parsed_members[1][i]
               /\ ListItems(passes[i + 1].members) = <<>>
        /\ md = JoinedByBlankLine([i \in DOMAIN passes |-> to_md_string(passes[i])])

\* the same when every member can be located
C26_MembersRenderedWhenLocated ==
    (ResolvesMembers /\ namespace = "'testing.ok'") => C26_MembersRenderedOnceEach

\* two members were rendered after the object
C26_TwoMembers ==
    /\ ResolvesMembers
    /\ raised = "none"
    /\ Len(parsed_members[1]) = 2
    /\ Len(passes) = 3

\* a member that pydoc.locate cannot tell from a missing object
C26_MemberIsNone ==
    /\ ResolvesMembers
    /\ namespace = "'testing.none_attr'"
    /\ config[1].members = "['public$']"
    /\ parsed_members[1] = <<AttrPublicA, AttrPublicB>>
    /\ raised = "NonExistentObjectException"
    /\ Len(passes) = 2

(***************************************************************************)
(* logger.py: log, called by render calls that run in two threads.  A      *)
(* thread can be interrupted between any two statements of log.            *)
(***************************************************************************)
MaxLogs == 2

\* the default of the parameter name of log
LoggerName == "npdoc_to_md"

\* the two render calls
Callers == {1, 2}

\* a render call that calls log a number of times, once for each object
\* rendered that has custom sections (ParserEngine.to_md_lines)
render_call(logs) == [pc |-> "render", logs |-> logs, logs_left |-> logs, output |-> None]

InitLogger ==
    /\ lines = <<>>
    /\ called = {}
    /\ labels = <<>>
    /\ blocks = <<>>
    /\ config = DefaultConfig
    /\ md = <<>>
    /\ md_from = <<>>
    /\ section_name = None
    /\ sections = <<>>
    /\ all_members = <<>>
    /\ members = <<>>
    /\ parsed_members = None
    /\ raised = "none"
    /\ conflicting = {}
    /\ kwargs = <<>>
    /\ text = <<>>
    /\ ignore_errors = FALSE
    /\ rendered_text = None
    /\ placeholder = None
    /\ callable_obj = None
    /\ signature = None
    /\ loggers = {}
    /\ handlers = 0
    /\ threads \in {<<render_call(a), render_call(b)>> : a, b \in 0..MaxLogs}
    /\ param = None
    /\ namespace = None
    /\ passes = <<>>

\* where a render call goes on after a call of log or at its start
after_log(logs_left) == IF logs_left > 0 THEN "log_if" ELSE "return"

\* the render call gets to its first call of log, or to its end
RenderStep(t) ==
    /\ threads[t].pc = "render"
    /\ threads' = [threads EXCEPT ![t].pc = after_log(threads[t].logs_left)]
    /\ UNCHANGED <<loggers, handlers, lines, called, labels, blocks, config, md, md_from, section_name,
                   sections, all_members, members, parsed_members, raised, conflicting,
                   kwargs, text, ignore_errors, rendered_text, placeholder,
                   callable_obj, signature, param, namespace, passes>>

\* if name not in loggers:
LogIf(t) ==
    /\ threads[t].pc = "log_if"
    /\ threads' = [threads EXCEPT ![t].pc =
                       IF LoggerName \notin loggers THEN "log_addHandler" ELSE "log_emit"]
    /\ UNCHANGED <<loggers, handlers, lines, called, labels, blocks, config, md, md_from, section_name,
                   sections, all_members, members, parsed_members, raised, conflicting,
                   kwargs, text, ignore_errors, rendered_text, placeholder,
                   callable_obj, signature, param, namespace, passes>>

\* _logger = logging.getLogger(name) ... _logger.addHandler(handler);
\* logging.getLogger gives the same logger for the same name
LogAddHandler(t) ==
    /\ threads[t].pc = "log_addHandler"
    /\ handlers' = handlers + 1
    /\ threads' = [threads EXCEPT ![t].pc = "log_register"]
    /\ UNCHANGED <<loggers, lines, called, labels, blocks, config, md, md_from, section_name,
                   sections, all_members, members, parsed_members, raised, conflicting,
                   kwargs, text, ignore_errors, rendered_text, placeholder,
                   callable_obj, signature, param, namespace, passes>>

\* loggers[name] = _logger
LogRegister(t) ==
    /\ threads[t].pc = "log_register"
    /\ loggers' = loggers \cup {LoggerName}
    /\ threads' = [threads EXCEPT ![t].pc = "log_emit"]
    /\ UNCHANGED <<handlers, lines, called, labels, blocks, config, md, md_from, section_name,
                   sections, all_members, members, parsed_members, raised, conflicting,
                   kwargs, text, ignore_errors, rendered_text, placeholder,
                   callable_obj, signature, param, namespace, passes>>

\* getattr(loggers[name], log_level.method_name)(...)
LogEmit(t) ==
    /\ threads[t].pc = "log_emit"
    /\ threads' = [threads EXCEPT ![t].logs_left = @ - 1,
                                  ![t].pc = after_log(threads[t].logs_left - 1)]
    /\ UNCHANGED <<loggers, handlers, lines, called, labels, blocks, config, md, md_from, section_name,
                   sections, all_members, members, parsed_members, raised, conflicting,
                   kwargs, text, ignore_errors, rendered_text, placeholder,
                   callable_obj, signature, param, namespace, passes>>

\* the render call returns its Markdown, which log has no part in
RenderReturn(t) ==
    /\ threads[t].pc = "return"
    /\ threads' = [threads EXCEPT ![t].pc = "done",
                                  ![t].output = Some(<<"MARKDOWN", threads[t].logs>>)]
    /\ UNCHANGED <<loggers, handlers, lines, called, labels, blocks, config, md, md_from, section_name,
                   sections, all_members, members, parsed_members, raised, conflicting,
                   kwargs, text, ignore_errors, rendered_text, placeholder,
                   callable_obj, signature, param, namespace, passes>>

NextLogger ==
    \E t \in Callers :
        \/ RenderStep(t)
        \/ LogIf(t)
        \/ LogAddHandler(t)
        \/ LogRegister(t)
        \/ LogEmit(t)
        \/ RenderReturn(t)

SpecLogger == InitLogger /\ [][NextLogger]_vars

\* both render calls have returned
BothDone == \A t \in Callers : threads[t].pc = "done"

\* log was called by one of the render calls
SomeLog == \E t \in Callers : threads[t].logs > 0

\* C22: after two render calls that ran concurrently, each has returned the
\* output it returns alone, and the logger registry and the handlers of the
\* logger of the library are what they are after the two calls run one
\* after the other: the logger registered with one handler when log was called
C22_ConcurrentAsSequential ==
    BothDone =>
        /\ \A t \in Callers : threads[t].output = Some(<<"MARKDOWN", threads[t].logs>>)
        /\ loggers = (IF SomeLog THEN {LoggerName} ELSE {})
        /\ handlers = (IF SomeLog THEN 1 ELSE 0)

\* the same when one of the render calls does not call log
C22_OneCallLogs ==
    (\E t \in Callers : threads[t].logs = 0) => C22_ConcurrentAsSequential

\* one of the two calls has logged and both have returned
C22_OneCallLogged ==
    /\ BothDone
    /\ threads[1].logs = 0
    /\ threads[2].logs = MaxLogs
    /\ handlers = 1

\* both calls added a handler to the logger
C22_TwoHandlers ==
    /\ BothDone
    /\ handlers = 2

====
